---- MODULE Spec2Model ----
(***************************************************************************)
(* State-machine model of the NFT portfolio app: the zustand store         *)
(* (wallets, NFT map, collection aggregates, custom groups, persisted      *)
(* subset), the composite-id helpers of the normalizer, the two           *)
(* paginating fetchers, the grid's groupAndSortNFTs, the Farcaster         *)
(* detector and the normalizer's fromAlchemy / fromHelius /                *)
(* normalizeImageUrl, and the caller that refreshes a wallet (fetch, then   *)
(* setNFTs).  The store's records leave out display-only fields            *)
(* (timestamps, colours, descriptions, images).                            *)
(***************************************************************************)
EXTENDS Integers, Sequences, FiniteSets, TLC

VARIABLES
    wallets,         \* AppStore.wallets: sequence of Wallet records
    activeWalletId,  \* AppStore.activeWalletId (None = undefined)
    nfts,            \* AppStore.nfts: Map<string, NFT> as a function key -> record
    collections,     \* AppStore.collections: Map<string, Collection>
    customGroups,    \* AppStore.customGroups: sequence of CustomGroup records
    viewMode,        \* AppStore.viewMode
    sortMode,        \* AppStore.sortMode
    filterOptions,   \* AppStore.filterOptions
    settings,        \* AppStore.settings
    storage,         \* the blob written by the persist middleware (partialize)
    walletSeq,       \* number of wallet ids generated so far (Date.now()/Math.random() suffix)
    groupSeq,        \* number of group ids generated so far
    everSet,         \* history: wallet ids that setNFTs was given a non-empty list for
    lastOp,          \* history: the store operation that acted last and the id it named
    \* NFTNormalizer.generateId / parseId
    idPc,            \* "idle", "start", "generated", "parsed"
    idIn,            \* the arguments of generateId
    idStr,           \* the string generateId returned
    idParsed,        \* the value parseId returned for idStr
    \* HeliusFetcher.fetchForWallet (Solana)
    hPc,             \* "idle", "loop", "await", "done", "error"
    hPage,           \* local page
    hHasMore,        \* local hasMore
    hAll,            \* local allNFTs; the returned list once hPc = "done"
    hReqs,           \* history: the getAssetsByOwner requests sent
    hResps,          \* history: the provider's responses
    \* AlchemyFetcher.fetchForWallet (EVM)
    aPc,             \* "idle", "loop", "await", "done", "error"
    aChain,          \* argument chain
    aPageKey,        \* local pageKey
    aHasMore,        \* local hasMore
    aAll,            \* local allNFTs; the returned list once aPc = "done"
    aReqs,           \* history: the getNFTsForOwner requests sent
    aResps,          \* history: the provider's responses
    \* One call of a function of the view, the detector or the normalizer
    callee,          \* "none" before the call, then the name of the function called
    input,           \* the argument the call is made with
    result,          \* what the call returned
    \* The caller that refreshes wallets
    inflight         \* ids of the wallets whose fetchForWallet call is awaited

storeVars == <<wallets, activeWalletId, nfts, collections, customGroups,
               viewMode, sortMode, filterOptions, settings, storage,
               walletSeq, groupSeq, everSet, lastOp>>

idVars == <<idPc, idIn, idStr, idParsed>>

heliusVars == <<hPc, hPage, hHasMore, hAll, hReqs, hResps>>

alchemyVars == <<aPc, aChain, aPageKey, aHasMore, aAll, aReqs, aResps>>

callVars == <<callee, input, result>>

refreshVars == <<inflight>>

nonStoreVars == <<idVars, heliusVars, alchemyVars, callVars, refreshVars>>

vars == <<storeVars, nonStoreVars>>

----------------------------------------------------------------------------
(* Bounds *)

MaxWalletIds == 2      \* wallet ids that addWallet can hand out / callers can name
MaxList == 2           \* longest list passed to setNFTs
MaxCount == 3          \* cap on a collection's nftCount

----------------------------------------------------------------------------
(* Values *)

\* JavaScript undefined for an id (ids are positive).
None == 0

WalletIds == 1..MaxWalletIds

\* Composite NFT ids as produced by the normalizer (evm:{chain}:{contract}:{token}).
NftIds == {"evm:ethereum:0xc1:1", "evm:polygon:0xc1:1"}

\* The chain / contract fields the normalizer gives the record with that id.
EvmChainOf(id) == IF id = "evm:polygon:0xc1:1" THEN "polygon" ELSE "ethereum"

ContractOf(id) == "0xc1"

\* An NFT record as fromAlchemy builds it for wallet w.
MkNFT(id, w) ==
    [id |-> id, walletId |-> w, chain |-> "evm", evmChain |-> EvmChainOf(id),
     contractAddress |-> ContractOf(id), name |-> "token"]

NFTRecords == {MkNFT(id, w) : id \in NftIds, w \in WalletIds}

RECURSIVE SeqsUpTo(_, _)
SeqsUpTo(S, n) ==
    IF n = 0 THEN {<<>>}
    ELSE LET shorter == SeqsUpTo(S, n - 1)
         IN  shorter \cup {Append(s, x) : s \in {t \in shorter : Len(t) = n - 1}, x \in S}

\* Lists a wallet fetch can return: no composite id twice.
NFTLists ==
    {l \in SeqsUpTo(NFTRecords, MaxList) :
        \A i, j \in 1..Len(l) : l[i].id = l[j].id => i = j}

\* Partial<NFT> values handed to updateNFT.
NFTUpdates ==
    {[name |-> "renamed"]}
      \cup {[id |-> i] : i \in NftIds}
      \cup {[walletId |-> w] : w \in WalletIds}

\* { ...existing, ...updates }
Merge(existing, updates) ==
    [f \in DOMAIN existing \cup DOMAIN updates |->
        IF f \in DOMAIN updates THEN updates[f] ELSE existing[f]]

defaultSettings == [theme |-> "auto", defaultSort |-> "recent"]

----------------------------------------------------------------------------
(* Persist middleware *)

\* Variant of partialize that leaves sortMode out of the stored blob.
partialize_NoSortMode(w, a, g, s, v, so) ==
    [wallets |-> w, activeWalletId |-> a, customGroups |-> g,
     settings |-> s, viewMode |-> v]

\* partialize: the fields of the state that are written to device storage.
partialize(w, a, g, s, v, so) ==
    [wallets |-> w, activeWalletId |-> a, customGroups |-> g,
     settings |-> s, viewMode |-> v, sortMode |-> so]

\* createJSONStorage: JSON.stringify leaves out the fields that are undefined.
ToJSON(blob) ==
    [f \in {x \in DOMAIN blob : ~(x = "activeWalletId" /\ blob[x] = None)} |-> blob[f]]

\* The blob the middleware writes after a set().
Persisted ==
    ToJSON(partialize(wallets', activeWalletId', customGroups', settings',
                      viewMode', sortMode'))

----------------------------------------------------------------------------
(* Initial state of the store *)

InitStore ==
    /\ wallets = <<>>
    /\ activeWalletId = None
    /\ nfts = <<>>
    /\ collections = <<>>
    /\ customGroups = <<>>
    /\ viewMode = "grid"
    /\ sortMode = "recent"
    /\ filterOptions = {}
    /\ settings = defaultSettings
    /\ storage = ToJSON(partialize(<<>>, None, <<>>, defaultSettings, "grid", "recent"))
    /\ walletSeq = 0
    /\ groupSeq = 0
    /\ everSet = {}
    /\ lastOp = [op |-> "init"]


----------------------------------------------------------------------------
(* Map helpers *)

\* Map.delete(key)
MapDelete(m, k) == [x \in DOMAIN m \ {k} |-> m[x]]

\* Map.set(key, value)
MapSet(m, k, v) == [x \in DOMAIN m \cup {k} |-> IF x = k THEN v ELSE m[x]]

\* Array.from(map.values()).filter(nft => nft.walletId === walletId)
\*      .forEach(nft => map.delete(nft.id))
DeleteByWallet(m, walletId) ==
    LET doomed == {m[k].id : k \in {x \in DOMAIN m : m[x].walletId = walletId}}
    IN  [x \in DOMAIN m \ doomed |-> m[x]]

\* `${nft.chain}:${nft.contractAddress}`
CollectionId(nft) == <<nft.chain, nft.contractAddress>>

\* One iteration of nfts.forEach in setNFTs.
FoldNFT(st, nft) ==
    LET key == CollectionId(nft)
    IN  [nfts |-> MapSet(st.nfts, nft.id, nft),
         collections |->
            IF key \notin DOMAIN st.collections
            THEN MapSet(st.collections, key,
                        [id |-> key, contractAddress |-> nft.contractAddress,
                         chain |-> nft.chain, evmChain |-> nft.evmChain,
                         nftCount |-> 1])
            ELSE MapSet(st.collections, key,
                        [st.collections[key] EXCEPT !.nftCount = @ + 1])]

RECURSIVE FoldList(_, _)
FoldList(st, list) ==
    IF list = <<>> THEN st
    ELSE FoldList(FoldNFT(st, Head(list)), Tail(list))

\* The state transition function passed to set() by setNFTs.
SetNFTsResult(walletId, list) ==
    FoldList([nfts |-> DeleteByWallet(nfts, walletId), collections |-> collections], list)

----------------------------------------------------------------------------
(* Wallet actions *)

addWallet ==
    /\ walletSeq < MaxWalletIds
    /\ LET id == walletSeq + 1
       IN  /\ wallets' = Append(wallets, [id |-> id, label |-> "wallet"])
           /\ activeWalletId' = IF activeWalletId # None THEN activeWalletId ELSE id
           /\ walletSeq' = id
           /\ lastOp' = [op |-> "addWallet", id |-> id]
    /\ UNCHANGED <<nfts, collections, customGroups, viewMode, sortMode,
                   filterOptions, settings, groupSeq, everSet>>
    /\ UNCHANGED nonStoreVars
    /\ storage' = Persisted

removeNFTsByWalletResult(walletId) == DeleteByWallet(nfts, walletId)

removeWallet(id) ==
    /\ LET newWallets == SelectSeq(wallets, LAMBDA w : w.id # id)
       IN  /\ wallets' = newWallets
           /\ activeWalletId' =
                 IF activeWalletId = id
                 THEN (IF Len(newWallets) > 0 THEN newWallets[1].id ELSE None)
                 ELSE activeWalletId
    /\ nfts' = removeNFTsByWalletResult(id)
    /\ lastOp' = [op |-> "removeWallet", id |-> id]
    /\ UNCHANGED <<collections, customGroups, viewMode, sortMode,
                   filterOptions, settings, walletSeq, groupSeq, everSet>>
    /\ UNCHANGED nonStoreVars
    /\ storage' = Persisted

\* Partial<Wallet> values handed to updateWallet.
WalletUpdates == {[label |-> "renamed"]} \cup {[id |-> w] : w \in WalletIds}

updateWallet(id, updates) ==
    /\ wallets' = [i \in 1..Len(wallets) |->
                     IF wallets[i].id = id THEN Merge(wallets[i], updates) ELSE wallets[i]]
    /\ lastOp' = [op |-> "updateWallet", id |-> id]
    /\ UNCHANGED <<activeWalletId, nfts, collections, customGroups, viewMode, sortMode,
                   filterOptions, settings, walletSeq, groupSeq, everSet>>
    /\ UNCHANGED nonStoreVars
    /\ storage' = Persisted

setActiveWallet(id) ==
    /\ activeWalletId' = id
    /\ lastOp' = [op |-> "setActiveWallet", id |-> id]
    /\ UNCHANGED <<wallets, nfts, collections, customGroups, viewMode, sortMode,
                   filterOptions, settings, walletSeq, groupSeq, everSet>>
    /\ UNCHANGED nonStoreVars
    /\ storage' = Persisted


----------------------------------------------------------------------------
(* NFT actions *)

setNFTs(walletId, list) ==
    /\ LET r == SetNFTsResult(walletId, list)
       IN  /\ \A k \in DOMAIN r.collections : r.collections[k].nftCount <= MaxCount
           /\ nfts' = r.nfts
           /\ collections' = r.collections
    /\ everSet' = IF list # <<>> THEN everSet \cup {walletId} ELSE everSet
    /\ lastOp' = [op |-> "setNFTs", id |-> walletId]
    /\ UNCHANGED <<wallets, activeWalletId, customGroups, viewMode, sortMode,
                   filterOptions, settings, walletSeq, groupSeq>>
    /\ UNCHANGED nonStoreVars
    /\ storage' = Persisted

updateNFT(id, updates) ==
    /\ nfts' = IF id \in DOMAIN nfts THEN MapSet(nfts, id, Merge(nfts[id], updates))
               ELSE nfts
    /\ lastOp' = [op |-> "updateNFT", nft |-> id]
    /\ UNCHANGED <<wallets, activeWalletId, collections, customGroups, viewMode,
                   sortMode, filterOptions, settings, walletSeq, groupSeq, everSet>>
    /\ UNCHANGED nonStoreVars
    /\ storage' = Persisted

removeNFTsByWallet(walletId) ==
    /\ nfts' = removeNFTsByWalletResult(walletId)
    /\ lastOp' = [op |-> "removeNFTsByWallet", id |-> walletId]
    /\ UNCHANGED <<wallets, activeWalletId, collections, customGroups, viewMode,
                   sortMode, filterOptions, settings, walletSeq, groupSeq, everSet>>
    /\ UNCHANGED nonStoreVars
    /\ storage' = Persisted

clearAllData ==
    /\ wallets' = <<>>
    /\ activeWalletId' = None
    /\ nfts' = <<>>
    /\ collections' = <<>>
    /\ customGroups' = <<>>
    /\ filterOptions' = {}
    /\ lastOp' = [op |-> "clearAllData"]
    /\ UNCHANGED <<viewMode, sortMode, settings, walletSeq, groupSeq, everSet>>
    /\ UNCHANGED nonStoreVars
    /\ storage' = Persisted

----------------------------------------------------------------------------
(* Custom group actions *)

MaxGroups == 2         \* group ids that createGroup can hand out

GroupIds == 1..MaxGroups

MemberLists ==
    LET \* Ids a caller may put into a group.
        MemberIds == NftIds
    IN
        SeqsUpTo(MemberIds, MaxList)

\* [...new Set(list)]: first occurrences, in order.
RECURSIVE Dedupe(_)
Dedupe(list) ==
    IF list = <<>> THEN <<>>
    ELSE LET front == Dedupe(SubSeq(list, 1, Len(list) - 1))
             last == list[Len(list)]
         IN  IF \E i \in 1..Len(front) : front[i] = last THEN front
             ELSE Append(front, last)

\* nftIds.includes(id)
Includes(list, id) == \E i \in 1..Len(list) : list[i] = id

\* Partial<CustomGroup> values handed to updateGroup.
GroupUpdates ==
    {[nftIds |-> <<i, i>>] : i \in NftIds}

createGroup(name) ==
    /\ groupSeq < MaxGroups
    /\ LET id == groupSeq + 1
       IN  /\ customGroups' = Append(customGroups,
                 [id |-> id, name |-> name, nftIds |-> <<>>])
           /\ groupSeq' = id
           /\ lastOp' = [op |-> "createGroup", id |-> id]
    /\ UNCHANGED <<wallets, activeWalletId, nfts, collections, viewMode, sortMode,
                   filterOptions, settings, walletSeq, everSet>>
    /\ UNCHANGED nonStoreVars
    /\ storage' = Persisted

updateGroup(id, updates) ==
    /\ customGroups' = [i \in 1..Len(customGroups) |->
          IF customGroups[i].id = id
          THEN Merge(customGroups[i], updates)
          ELSE customGroups[i]]
    /\ lastOp' = [op |-> "updateGroup", id |-> id]
    /\ UNCHANGED <<wallets, activeWalletId, nfts, collections, viewMode, sortMode,
                   filterOptions, settings, walletSeq, groupSeq, everSet>>
    /\ UNCHANGED nonStoreVars
    /\ storage' = Persisted

deleteGroup(id) ==
    /\ customGroups' = SelectSeq(customGroups, LAMBDA g : g.id # id)
    /\ lastOp' = [op |-> "deleteGroup", id |-> id]
    /\ UNCHANGED <<wallets, activeWalletId, nfts, collections, viewMode, sortMode,
                   filterOptions, settings, walletSeq, groupSeq, everSet>>
    /\ UNCHANGED nonStoreVars
    /\ storage' = Persisted

\* Variant of AddMembers that concatenates without building the Set.
AddMembers_NoSet(old, nftIds) == old \o nftIds

\* nftIds: [...new Set([...g.nftIds, ...nftIds])]
AddMembers(old, nftIds) == Dedupe(old \o nftIds)

addToGroup(groupId, nftIds) ==
    /\ customGroups' = [i \in 1..Len(customGroups) |->
          IF customGroups[i].id = groupId
          THEN [customGroups[i] EXCEPT
                   !.nftIds = AddMembers(customGroups[i].nftIds, nftIds)]
          ELSE customGroups[i]]
    /\ lastOp' = [op |-> "addToGroup", id |-> groupId, nftIds |-> nftIds]
    /\ UNCHANGED <<wallets, activeWalletId, nfts, collections, viewMode, sortMode,
                   filterOptions, settings, walletSeq, groupSeq, everSet>>
    /\ UNCHANGED nonStoreVars
    /\ storage' = Persisted

\* nftIds: g.nftIds.filter(id => !nftIds.includes(id))
RemoveMembers(old, nftIds) == SelectSeq(old, LAMBDA id : ~Includes(nftIds, id))

removeFromGroup(groupId, nftIds) ==
    /\ customGroups' = [i \in 1..Len(customGroups) |->
          IF customGroups[i].id = groupId
          THEN [customGroups[i] EXCEPT
                   !.nftIds = RemoveMembers(customGroups[i].nftIds, nftIds)]
          ELSE customGroups[i]]
    /\ lastOp' = [op |-> "removeFromGroup", id |-> groupId, nftIds |-> nftIds]
    /\ UNCHANGED <<wallets, activeWalletId, nfts, collections, viewMode, sortMode,
                   filterOptions, settings, walletSeq, groupSeq, everSet>>
    /\ UNCHANGED nonStoreVars
    /\ storage' = Persisted

----------------------------------------------------------------------------
(* UI and settings actions *)

ViewModes == {"grid", "list"}

SortModes == {"recent", "collection", "farcaster", "custom", "value"}

\* FilterOptions values, abstracted to the set of chains filtered on.
FilterValues == {{}, {"evm"}}

\* Partial<AppSettings> values handed to updateSettings.
SettingsUpdates == {[theme |-> "dark"], [defaultSort |-> "value"]}

setViewMode(mode) ==
    /\ viewMode' = mode
    /\ lastOp' = [op |-> "setViewMode"]
    /\ UNCHANGED <<wallets, activeWalletId, nfts, collections, customGroups, sortMode,
                   filterOptions, settings, walletSeq, groupSeq, everSet>>
    /\ UNCHANGED nonStoreVars
    /\ storage' = Persisted

setSortMode(mode) ==
    /\ sortMode' = mode
    /\ lastOp' = [op |-> "setSortMode"]
    /\ UNCHANGED <<wallets, activeWalletId, nfts, collections, customGroups, viewMode,
                   filterOptions, settings, walletSeq, groupSeq, everSet>>
    /\ UNCHANGED nonStoreVars
    /\ storage' = Persisted

setFilterOptions(options) ==
    /\ filterOptions' = options
    /\ lastOp' = [op |-> "setFilterOptions"]
    /\ UNCHANGED <<wallets, activeWalletId, nfts, collections, customGroups, viewMode,
                   sortMode, settings, walletSeq, groupSeq, everSet>>
    /\ UNCHANGED nonStoreVars
    /\ storage' = Persisted

updateSettings(updates) ==
    /\ settings' = Merge(settings, updates)
    /\ lastOp' = [op |-> "updateSettings"]
    /\ UNCHANGED <<wallets, activeWalletId, nfts, collections, customGroups, viewMode,
                   sortMode, filterOptions, walletSeq, groupSeq, everSet>>
    /\ UNCHANGED nonStoreVars
    /\ storage' = Persisted

----------------------------------------------------------------------------
(* Process restart: create() builds the initial state and the persist      *)
(* middleware merges the stored blob over it.                              *)

\* The state create() starts from (useStore initial state).
InitialState ==
    [wallets |-> <<>>, activeWalletId |-> None, nfts |-> <<>>, collections |-> <<>>,
     customGroups |-> <<>>, viewMode |-> "grid", sortMode |-> "recent",
     filterOptions |-> {}, settings |-> defaultSettings]

restart ==
    /\ LET hydrated == Merge(InitialState, storage)
       IN  /\ wallets' = hydrated.wallets
           /\ activeWalletId' = hydrated.activeWalletId
           /\ nfts' = hydrated.nfts
           /\ collections' = hydrated.collections
           /\ customGroups' = hydrated.customGroups
           /\ viewMode' = hydrated.viewMode
           /\ sortMode' = hydrated.sortMode
           /\ filterOptions' = hydrated.filterOptions
           /\ settings' = hydrated.settings
    /\ lastOp' = [op |-> "restart"]
    /\ UNCHANGED <<storage, walletSeq, groupSeq, everSet>>
    /\ UNCHANGED nonStoreVars

----------------------------------------------------------------------------
(* NFTNormalizer.generateId / parseId.  Strings are sequences of            *)
(* one-character strings.                                                   *)

\* JavaScript undefined for a page cursor; no cursor the provider issues equals it.
NoPageKey == "undefined"

MaxIdLen == 2          \* longest contract address / token id string

Null == [null |-> TRUE]

\* An evmChain argument that is undefined.
NoEvmChain == <<>>

EVM == <<"e", "v", "m">>

SOLANA == <<"s", "o", "l", "a", "n", "a">>

ETHEREUM == <<"e", "t", "h", "e", "r", "e", "u", "m">>

POLYGON == <<"p", "o", "l", "y", "g", "o", "n">>

COLON == <<":">>

\* String.prototype.toLowerCase on one character.
UpperLetters == <<"A", "B", "C", "D", "E", "F", "G", "H", "I", "J", "K", "L", "M", "N", "O", "P", "Q", "R", "S", "T", "U", "V", "W", "X", "Y", "Z">>

LowerLetters == <<"a", "b", "c", "d", "e", "f", "g", "h", "i", "j", "k", "l", "m", "n", "o", "p", "q", "r", "s", "t", "u", "v", "w", "x", "y", "z">>

LowerChar(c) ==
    IF \E i \in 1..Len(UpperLetters) : UpperLetters[i] = c
    THEN LowerLetters[CHOOSE i \in 1..Len(UpperLetters) : UpperLetters[i] = c]
    ELSE c

\* String.prototype.toLowerCase
toLowerCase(str) == [i \in 1..Len(str) |-> LowerChar(str[i])]

\* String.prototype.split(':')
RECURSIVE split(_)
split(str) ==
    IF \A i \in 1..Len(str) : str[i] # ":" THEN <<str>>
    ELSE LET p == CHOOSE i \in 1..Len(str) :
                      str[i] = ":" /\ \A j \in 1..(i - 1) : str[j] # ":"
         IN  <<SubSeq(str, 1, p - 1)>> \o split(SubSeq(str, p + 1, Len(str)))

generateId(chain, contractAddress, tokenId, evmChain) ==
    IF chain = EVM /\ evmChain # NoEvmChain
    THEN EVM \o COLON \o evmChain \o COLON \o toLowerCase(contractAddress) \o COLON \o tokenId
    ELSE chain \o COLON \o toLowerCase(contractAddress) \o COLON \o tokenId

parseId(id) ==
    LET parts == split(id)
    IN  IF parts[1] = EVM /\ Len(parts) = 4
        THEN [chain |-> EVM, evmChain |-> parts[2],
              contractAddress |-> parts[3], tokenId |-> parts[4]]
        ELSE IF parts[1] = SOLANA /\ Len(parts) = 2
        THEN [chain |-> SOLANA, evmChain |-> NoEvmChain,
              contractAddress |-> parts[2], tokenId |-> parts[2]]
        ELSE Null

\* Non-empty strings of at most MaxIdLen characters.
Strings(chars) == SeqsUpTo(chars, MaxIdLen) \ {<<>>}

\* The argument tuples: an EVM NFT names its chain, a Solana NFT has none.
IdInputs ==
    LET \* Characters of contract addresses (hex / base58) and of token ids.
        AddressChars == {"a", "B", "1"}
        TokenChars == {"1", "7"}
    IN
        {[chain |-> EVM, contractAddress |-> a, tokenId |-> t, evmChain |-> e] :
            a \in Strings(AddressChars), t \in Strings(TokenChars), e \in {ETHEREUM, POLYGON}}
          \cup
        {[chain |-> SOLANA, contractAddress |-> a, tokenId |-> t, evmChain |-> NoEvmChain] :
            a \in Strings(AddressChars), t \in Strings(TokenChars)}

InitIdIdle ==
    /\ idPc = "idle"
    /\ idIn = Null
    /\ idStr = <<>>
    /\ idParsed = Null

InitId ==
    /\ idPc = "start"
    /\ idIn \in IdInputs
    /\ idStr = <<>>
    /\ idParsed = Null

GenerateId ==
    /\ idPc = "start"
    /\ idStr' = generateId(idIn.chain, idIn.contractAddress, idIn.tokenId, idIn.evmChain)
    /\ idPc' = "generated"
    /\ UNCHANGED <<idIn, idParsed>>
    /\ UNCHANGED <<storeVars, heliusVars, alchemyVars, callVars, refreshVars>>

ParseId ==
    /\ idPc = "generated"
    /\ idParsed' = parseId(idStr)
    /\ idPc' = "parsed"
    /\ UNCHANGED <<idIn, idStr>>
    /\ UNCHANGED <<storeVars, heliusVars, alchemyVars, callVars, refreshVars>>

----------------------------------------------------------------------------
(* The fetchers.  The provider is the environment: it answers each request  *)
(* with a page or with a failure.                                           *)

MaxPages == 3          \* pages a wallet's holdings span at most

\* const limit = 1000 in HeliusFetcher.fetchForWallet
HeliusLimit == 1000

\* pageSize: '100' in AlchemyFetcher.fetchPage
AlchemyPageSize == 100

FetchAddress == "owner"

FetchWalletId == "wallet_1"

\* !!pageKey
Truthy(key) == key # NoPageKey /\ key # ""

RECURSIVE Flatten(_)
Flatten(lists) ==
    IF lists = <<>> THEN <<>> ELSE Head(lists) \o Flatten(Tail(lists))

(* Solana *)

\* NFTNormalizer.fromHelius, as far as the fetcher's result is concerned.
fromHelius(asset, walletId) ==
    [id |-> <<"solana", asset>>, walletId |-> walletId, chain |-> "solana"]

\* The assets on a page of n items; asset ids are numbered through the pages.
HeliusAssets(page, n) == [i \in 1..n |-> (page - 1) * HeliusLimit + i]

\* Page lengths the provider can return for a request with limit HeliusLimit.
ShortPages == {0, 1, HeliusLimit - 1}

\* Variant of HeliusRequest that does not pass the page counter on.
HeliusRequest_FirstPage(address, page, limit) ==
    [method |-> "getAssetsByOwner", ownerAddress |-> address, page |-> 1, limit |-> limit]

\* fetchPage: the params of the getAssetsByOwner call.
HeliusRequest(address, page, limit) ==
    [method |-> "getAssetsByOwner", ownerAddress |-> address, page |-> page, limit |-> limit]

\* fetchForWallet is called, for a Solana wallet.
HeliusStart ==
    /\ hPc = "idle"
    /\ aPc = "idle"
    /\ hPc' = "loop"
    /\ hPage' = 1
    /\ hHasMore' = TRUE
    /\ hAll' = <<>>
    /\ UNCHANGED <<hReqs, hResps>>
    /\ UNCHANGED <<storeVars, idVars, alchemyVars, callVars, refreshVars>>

\* Variant of HeliusLoop that is never left: with hasMore false it stays put.
HeliusLoop_NoExit ==
    /\ hPc = "loop"
    /\ IF hHasMore
       THEN /\ hReqs' = Append(hReqs, HeliusRequest(FetchAddress, hPage, HeliusLimit))
            /\ hPc' = "await"
       ELSE UNCHANGED <<hPc, hReqs>>
    /\ UNCHANGED <<hPage, hHasMore, hAll, hResps>>
    /\ UNCHANGED <<storeVars, idVars, alchemyVars, callVars, refreshVars>>

\* while (hasMore): fetchPage sends the request and suspends; or the loop is left.
HeliusLoop ==
    /\ hPc = "loop"
    /\ IF hHasMore
       THEN /\ hReqs' = Append(hReqs, HeliusRequest(FetchAddress, hPage, HeliusLimit))
            /\ hPc' = "await"
       ELSE /\ hPc' = "done"
            /\ UNCHANGED hReqs
    /\ UNCHANGED <<hPage, hHasMore, hAll, hResps>>
    /\ UNCHANGED <<storeVars, idVars, alchemyVars, callVars, refreshVars>>

\* The response arrives with n assets: fetchPage normalizes, the loop body runs.
HeliusPage(n) ==
    /\ hPc = "await"
    /\ n = HeliusLimit => hPage < MaxPages
    /\ LET items == [i \in 1..n |-> fromHelius(HeliusAssets(hPage, n)[i], FetchWalletId)]
       IN  /\ hAll' = hAll \o items
           /\ hHasMore' = (Len(items) = HeliusLimit)
           /\ hResps' = Append(hResps, [ok |-> TRUE, items |-> items])
    /\ hPage' = hPage + 1
    /\ hPc' = "loop"
    /\ UNCHANGED hReqs
    /\ UNCHANGED <<storeVars, idVars, alchemyVars, callVars, refreshVars>>

\* makeRpcCall throws: !response.ok, or data.error is set.
HeliusFail(kind) ==
    /\ hPc = "await"
    /\ hResps' = Append(hResps, [ok |-> FALSE, kind |-> kind])
    /\ hPc' = "error"
    /\ UNCHANGED <<hPage, hHasMore, hAll, hReqs>>
    /\ UNCHANGED <<storeVars, idVars, alchemyVars, callVars, refreshVars>>

\* What the caller of fetchForWallet gets: the returned list, or the thrown error.
HeliusOutcome ==
    IF hPc = "done" THEN [returned |-> hAll]
    ELSE IF hPc = "error"
    THEN [thrown |-> IF hResps[Len(hResps)].kind = "http"
                     THEN "Helius API error" ELSE "Helius RPC error"]
    ELSE [pending |-> TRUE]

(* EVM *)

EvmChains == {"ethereum", "polygon"}

\* NFTNormalizer.fromAlchemy, as far as the fetcher's result is concerned.
fromAlchemy(asset, walletId, chain) ==
    [id |-> <<"evm", chain, asset>>, walletId |-> walletId, chain |-> "evm",
     evmChain |-> chain]

\* Cursors the provider hands out; "" is an empty cursor.
PageKeys == {NoPageKey, "", "k1", "k2"}

\* Numbers of NFTs on a page.
PageItemCounts == {0, 2}

\* mapChainToNetwork: mapping[chain] || 'eth-mainnet'
mapChainToNetwork(chain) ==
    LET mapping == [ethereum |-> "eth-mainnet", polygon |-> "polygon-mainnet",
                    arbitrum |-> "arb-mainnet", optimism |-> "opt-mainnet",
                    base |-> "base-mainnet", zora |-> "zora-mainnet"]
    IN  IF chain \in DOMAIN mapping THEN mapping[chain] ELSE "eth-mainnet"

\* Variant of AlchemyRequest that never appends the cursor.
AlchemyRequest_NoCursor(address, chain, pageKey) ==
    [path |-> "getNFTsForOwner", owner |-> address, withMetadata |-> "true",
     pageSize |-> AlchemyPageSize]

\* fetchPage: the URL path and query of the GET request.  The URL is
\* `${this.baseUrl}/${this.apiKey}/getNFTsForOwner`, the same for every chain:
\* const network = this.mapChainToNetwork(chain) is computed and not used.
AlchemyRequest(address, chain, pageKey) ==
    IF Truthy(pageKey)
    THEN [path |-> "getNFTsForOwner", owner |-> address, withMetadata |-> "true",
          pageSize |-> AlchemyPageSize, pageKey |-> pageKey]
    ELSE [path |-> "getNFTsForOwner", owner |-> address, withMetadata |-> "true",
          pageSize |-> AlchemyPageSize]

\* fetchForWallet is called, for a wallet on an EVM chain.
AlchemyStart(chain) ==
    /\ aPc = "idle"
    /\ hPc \in {"idle", "done", "error"}
    /\ aPc' = "loop"
    /\ aChain' = chain
    /\ aPageKey' = NoPageKey
    /\ aHasMore' = TRUE
    /\ aAll' = <<>>
    /\ UNCHANGED <<aReqs, aResps>>
    /\ UNCHANGED <<storeVars, idVars, heliusVars, callVars, refreshVars>>

\* while (hasMore): fetchPage sends the request and suspends; or the loop is left.
AlchemyLoop ==
    /\ aPc = "loop"
    /\ IF aHasMore
       THEN /\ aReqs' = Append(aReqs, AlchemyRequest(FetchAddress, aChain, aPageKey))
            /\ aPc' = "await"
       ELSE /\ aPc' = "done"
            /\ UNCHANGED aReqs
    /\ UNCHANGED <<aChain, aPageKey, aHasMore, aAll, aResps>>
    /\ UNCHANGED <<storeVars, idVars, heliusVars, callVars, refreshVars>>

\* hasMore = result.hasMore && !!pageKey, with result.hasMore = !!data.pageKey
AlchemyHasMore(pageKey) == Truthy(pageKey) /\ Truthy(pageKey)

\* The response arrives with n NFTs and a pageKey: fetchPage normalizes, the loop
\* body runs.
AlchemyPage(n, pageKey) ==
    /\ aPc = "await"
    /\ Truthy(pageKey) => Len(aReqs) < MaxPages
    /\ LET items == [i \in 1..n |->
                       fromAlchemy(Len(aReqs) * AlchemyPageSize + i, FetchWalletId, aChain)]
       IN  /\ aAll' = aAll \o items
           /\ aResps' = Append(aResps, [ok |-> TRUE, items |-> items, pageKey |-> pageKey])
    /\ aPageKey' = pageKey
    /\ aHasMore' = AlchemyHasMore(pageKey)
    /\ aPc' = "loop"
    /\ UNCHANGED <<aChain, aReqs>>
    /\ UNCHANGED <<storeVars, idVars, heliusVars, callVars, refreshVars>>

\* Variant of AlchemyFail in which the loop goes on after a failed page.
AlchemyFail_Retry ==
    /\ aPc = "await"
    /\ aResps' = Append(aResps, [ok |-> FALSE, kind |-> "http"])
    /\ aPc' = "loop"
    /\ UNCHANGED <<aChain, aPageKey, aHasMore, aAll, aReqs>>
    /\ UNCHANGED <<storeVars, idVars, heliusVars, callVars, refreshVars>>

\* fetchPage throws: !response.ok
AlchemyFail ==
    /\ aPc = "await"
    /\ aResps' = Append(aResps, [ok |-> FALSE, kind |-> "http"])
    /\ aPc' = "error"
    /\ UNCHANGED <<aChain, aPageKey, aHasMore, aAll, aReqs>>
    /\ UNCHANGED <<storeVars, idVars, heliusVars, callVars, refreshVars>>

\* What the caller of fetchForWallet gets: the returned list, or the thrown error.
AlchemyOutcome ==
    IF aPc = "done" THEN [returned |-> aAll]
    ELSE IF aPc = "error" THEN [thrown |-> "Alchemy API error"]
    ELSE [pending |-> TRUE]

----------------------------------------------------------------------------
(* The grid's arrangement of a list of NFTs: groupAndSortNFTs.              *)

MaxGridLen == 3        \* longest list handed to groupAndSortNFTs

\* Collection names, in the order localeCompare puts them.
CollectionNames == <<"Alpha", "Beta">>

GridNFTs ==
    LET CollectionAddresses == {"0xa", "0xb"}
        \* Floor price amount (0: the collection has none), Farcaster flag and lastFetched
        \* that the NFTs of a list differ in.
        GridVariants == {<<0, FALSE, 1>>, <<1, TRUE, 2>>, <<2, FALSE, 2>>}
        \* An NFT record with the fields groupAndSortNFTs reads.
        MkGridNFT(address, name, v) ==
            [collection |-> IF v[1] = 0
                            THEN [name |-> name, address |-> address]
                            ELSE [name |-> name, address |-> address,
                                  floorPrice |-> [amount |-> v[1], currency |-> "ETH"]],
             metadata |-> [isFarcasterMint |-> v[2]],
             lastFetched |-> v[3]]
    IN
        {MkGridNFT(a, CollectionNames[n], v) :
            a \in CollectionAddresses, n \in 1..Len(CollectionNames), v \in GridVariants}

GridLists == SeqsUpTo(GridNFTs, MaxGridLen)

\* String.prototype.localeCompare on collection names
localeCompare(a, b) ==
    LET rank(x) == CHOOSE i \in 1..Len(CollectionNames) : CollectionNames[i] = x
    IN  IF rank(a) < rank(b) THEN -1 ELSE IF rank(a) > rank(b) THEN 1 ELSE 0

\* Array.prototype.sort(compare): a stable sort; compare[a, b] is compare(a, b)
\* for the elements a, b of the list.
StableSort(list, compare) ==
    LET pos(i) == 1 + Cardinality({j \in 1..Len(list) :
                         \/ compare[list[j], list[i]] < 0
                         \/ compare[list[j], list[i]] = 0 /\ j < i})
    IN  [k \in 1..Len(list) |-> list[CHOOSE i \in 1..Len(list) : pos(i) = k]]

\* Variant of FloorAmount in which a missing floor price counts as the highest.
FloorAmount_MissingHigh(nft) ==
    IF "floorPrice" \in DOMAIN nft.collection THEN nft.collection.floorPrice.amount ELSE 9

\* a.collection.floorPrice?.amount || 0
FloorAmount(nft) ==
    IF "floorPrice" \in DOMAIN nft.collection THEN nft.collection.floorPrice.amount ELSE 0

SectionHeader(title, count) == [isHeader |-> TRUE, title |-> title, count |-> count]

\* case 'collection': the Map from collection.address to its NFTs, in insertion
\* order, sorted by the name of each entry's first NFT, one header per entry.
ArrangeByCollection(list) ==
    LET keys == Dedupe([i \in 1..Len(list) |-> list[i].collection.address])
        entries == [k \in 1..Len(keys) |->
                       SelectSeq(list, LAMBDA n : n.collection.address = keys[k])]
        sortedCollections ==
            StableSort(entries,
                       [x, y \in {entries[k] : k \in 1..Len(entries)} |->
                           localeCompare(x[1].collection.name, y[1].collection.name)])
    IN  Flatten([k \in 1..Len(sortedCollections) |->
                    <<SectionHeader(sortedCollections[k][1].collection.name,
                                    Len(sortedCollections[k]))>>
                      \o sortedCollections[k]])

\* Variant of ArrangeByFarcaster that emits both headers whatever the groups hold.
ArrangeByFarcaster_AlwaysHeaders(list) ==
    LET farcasterNfts == SelectSeq(list, LAMBDA n : n.metadata.isFarcasterMint)
        otherNfts == SelectSeq(list, LAMBDA n : ~n.metadata.isFarcasterMint)
    IN  <<SectionHeader("Farcaster Mints", Len(farcasterNfts))>> \o farcasterNfts
        \o <<SectionHeader("Other NFTs", Len(otherNfts))>> \o otherNfts

\* case 'farcaster'
ArrangeByFarcaster(list) ==
    LET farcasterNfts == SelectSeq(list, LAMBDA n : n.metadata.isFarcasterMint)
        otherNfts == SelectSeq(list, LAMBDA n : ~n.metadata.isFarcasterMint)
    IN  (IF Len(farcasterNfts) > 0
         THEN <<SectionHeader("Farcaster Mints", Len(farcasterNfts))>> \o farcasterNfts
         ELSE <<>>)
        \o
        (IF Len(otherNfts) > 0
         THEN <<SectionHeader("Other NFTs", Len(otherNfts))>> \o otherNfts
         ELSE <<>>)

groupAndSortNFTs(list, mode) ==
    IF mode = "collection" THEN ArrangeByCollection(list)
    ELSE IF mode = "farcaster" THEN ArrangeByFarcaster(list)
    ELSE IF mode = "value"
    THEN StableSort(list, [a, b \in {list[i] : i \in 1..Len(list)} |->
                              FloorAmount(b) - FloorAmount(a)])
    ELSE StableSort(list, [a, b \in {list[i] : i \in 1..Len(list)} |->
                              b.lastFetched - a.lastFetched])

\* Variant of NftsAfter in which the value and recent cases sort the caller's
\* array itself.
NftsAfter_SortInPlace(list, mode) ==
    IF mode \in {"collection", "farcaster"} THEN list ELSE groupAndSortNFTs(list, mode)

\* The caller's array after the call: forEach and filter read it, and the sorts
\* work on the copy [...nfts].
NftsAfter(list, mode) == list

InitGrid ==
    /\ callee = "none"
    /\ input \in {[nfts |-> l] : l \in GridLists}
    /\ result = Null

\* The grid arranges the list for a sort mode.
GroupAndSort(mode) ==
    /\ callee = "none"
    /\ callee' = "groupAndSortNFTs"
    /\ result' = [mode |-> mode, items |-> groupAndSortNFTs(input.nfts, mode)]
    /\ input' = [nfts |-> NftsAfter(input.nfts, mode)]
    /\ UNCHANGED <<storeVars, idVars, heliusVars, alchemyVars, refreshVars>>

----------------------------------------------------------------------------
(* The Farcaster detector.  Texts are sequences of one-character strings.   *)

\* JavaScript undefined for an optional string
Undefined == <<"undefined">>

\* !text
Blank(text) == text = Undefined \/ text = <<>>

\* obj.f for an optional string property f
Field(obj, f) == IF f \in DOMAIN obj THEN obj[f] ELSE Undefined

\* obj?.f for an optional object property f (the empty object stands for undefined)
Sub(obj, f) == IF f \in DOMAIN obj THEN obj[f] ELSE <<>>

\* a || b on optional strings
Or(a, b) == IF Blank(a) THEN b ELSE a

\* String.prototype.includes
includes(text, part) ==
    \E i \in 1..(Len(text) - Len(part) + 1) : SubSeq(text, i, i + Len(part) - 1) = part

FARCASTER_CONTRACTS ==
    {<<"0", "x", "7", "c", "7", "4", "d", "f", "e", "3", "9", "9", "7", "6", "d", "c", "3", "9", "5", "5", "2", "9", "c", "1", "4", "e", "5", "4", "a", "5", "9", "7", "8", "0", "9", "9", "8", "0", "e", "0", "1", "c">>,
     <<"0", "x", "0", "4", "e", "2", "5", "1", "6", "a", "2", "c", "2", "0", "7", "e", "8", "4", "a", "1", "8", "3", "9", "7", "5", "5", "6", "7", "5", "d", "f", "d", "8", "e", "f", "6", "3", "0", "2", "f", "0", "a">>,
     <<"0", "x", "8", "0", "8", "7", "0", "3", "9", "1", "5", "2", "c", "4", "7", "2", "f", "a", "7", "4", "f", "4", "7", "3", "9", "8", "6", "2", "8", "f", "f", "0", "0", "2", "9", "9", "4", "0", "5", "6", "e", "a">>,
     <<"0", "x", "8", "6", "c", "1", "f", "e", "6", "c", "5", "b", "5", "c", "9", "f", "0", "c", "9", "b", "8", "c", "3", "a", "9", "b", "0", "b", "5", "e", "3", "e", "9", "c", "5", "c", "5", "c", "5", "c", "5", "c">>}

FARCASTER_KEYWORDS ==
    <<<<"f", "a", "r", "c", "a", "s", "t", "e", "r">>,
      <<"w", "a", "r", "p", "c", "a", "s", "t">>,
      <<"f", "c", " ", "c", "h", "a", "n", "n", "e", "l">>,
      <<"/", "c", "h", "a", "n", "n", "e", "l", "/">>,
      <<"m", "i", "n", "t", "e", "d", " ", "o", "n", " ", "f", "a", "r", "c", "a", "s", "t", "e", "r">>,
      <<"f", "a", "r", "c", "a", "s", "t", "e", "r", " ", "m", "i", "n", "t">>>>

\* The three host names isFarcasterUrl looks for
FARCASTER_URLS ==
    <<<<"f", "a", "r", "c", "a", "s", "t", "e", "r", ".", "x", "y", "z">>,
      <<"w", "a", "r", "p", "c", "a", "s", "t", ".", "c", "o", "m">>,
      <<"s", "u", "p", "e", "r", "c", "a", "s", "t", ".", "x", "y", "z">>>>

\* [a-z0-9-] under the i flag
IsWordChar(c) ==
    \/ \E i \in 1..Len(LowerLetters) : LowerLetters[i] = LowerChar(c)
    \/ c \in {"0", "1", "2", "3", "4", "5", "6", "7", "8", "9", "-"}

\* \s
IsSpace(c) == c = " "

\* CHANNEL_PATTERNS: each is a literal (matched under the i flag), then \s* where
\* ws is set, then the captured group ([a-z0-9-]+).
CHANNEL_PATTERNS ==
    <<[lit |-> <<"/">>, ws |-> FALSE],
      [lit |-> <<"f", "a", "r", "c", "a", "s", "t", "e", "r", ".", "x", "y", "z", "/">>, ws |-> FALSE],
      [lit |-> <<"w", "a", "r", "p", "c", "a", "s", "t", ".", "c", "o", "m", "/", "~", "/">>, ws |-> FALSE],
      [lit |-> <<"c", "h", "a", "n", "n", "e", "l", ":">>, ws |-> TRUE]>>

\* The end of the longest run of word characters (of spaces, if word is FALSE)
\* that starts at from; from - 1 if there is none.
RECURSIVE RunEnd(_, _, _)
RunEnd(text, from, word) ==
    IF from <= Len(text) /\ (IF word THEN IsWordChar(text[from]) ELSE IsSpace(text[from]))
    THEN RunEnd(text, from + 1, word)
    ELSE from - 1

\* Where the captured group starts if the pattern matches at position i, else 0.
GroupStart(text, pattern, i) ==
    LET n == Len(pattern.lit)
    IN  IF \/ i + n - 1 > Len(text)
           \/ LowerChar(text[i]) # pattern.lit[1]
           \/ toLowerCase(SubSeq(text, i, i + n - 1)) # pattern.lit
        THEN 0
        ELSE LET g == IF pattern.ws THEN RunEnd(text, i + n, FALSE) + 1 ELSE i + n
             IN  IF g <= Len(text) /\ IsWordChar(text[g]) THEN g ELSE 0

\* The group captured by the leftmost match at or after position i, or Undefined.
RECURSIVE MatchFrom(_, _, _)
MatchFrom(text, pattern, i) ==
    IF i > Len(text) THEN Undefined
    ELSE LET g == GroupStart(text, pattern, i)
         IN  IF g # 0 THEN SubSeq(text, g, RunEnd(text, g, TRUE))
             ELSE MatchFrom(text, pattern, i + 1)

\* text.match(pattern): the group captured by the leftmost match, or Undefined.
match(text, pattern) == MatchFrom(text, pattern, 1)

\* hasKeywords
hasKeywords(text) ==
    /\ ~Blank(text)
    /\ \E k \in 1..Len(FARCASTER_KEYWORDS) :
          includes(toLowerCase(text), FARCASTER_KEYWORDS[k])

DigitChars == <<"0", "1", "2", "3", "4", "5", "6", "7", "8", "9">>

\* String(attr.value): a value is a string, a number (one digit here) or undefined.
String(value) ==
    IF "str" \in DOMAIN value THEN value.str
    ELSE IF "num" \in DOMAIN value THEN <<DigitChars[value.num + 1]>>
    ELSE <<"u", "n", "d", "e", "f", "i", "n", "e", "d">>

\* The callback of attributes.some in hasAttributeKeywords
AttrHasKeyword(attr) ==
    \/ \E k \in 1..Len(FARCASTER_KEYWORDS) :
          includes(toLowerCase(attr.trait_type), FARCASTER_KEYWORDS[k])
    \/ \E k \in 1..Len(FARCASTER_KEYWORDS) :
          includes(toLowerCase(String(attr.value)), FARCASTER_KEYWORDS[k])

\* attr.trait_type.toLowerCase() on an attribute without trait_type is a TypeError
NoTraitType(attr) == "trait_type" \notin DOMAIN attr

\* The first attribute without trait_type, the one on which the callback of
\* attributes.some / attributes.find throws if it is reached; 0 if there is none.
FirstUntyped(attributes) ==
    IF \E i \in 1..Len(attributes) : NoTraitType(attributes[i])
    THEN CHOOSE i \in 1..Len(attributes) :
             /\ NoTraitType(attributes[i])
             /\ \A j \in 1..(i - 1) : ~NoTraitType(attributes[j])
    ELSE 0

\* hasAttributeKeywords(nft.metadata.attributes), where it returns
hasAttributeKeywords(metadata) ==
    /\ "attributes" \in DOMAIN metadata
    /\ \E i \in 1..Len(metadata.attributes) :
          /\ ~NoTraitType(metadata.attributes[i])
          /\ AttrHasKeyword(metadata.attributes[i])

\* isFarcasterUrl
isFarcasterUrl(url) ==
    /\ ~Blank(url)
    /\ \E k \in 1..Len(FARCASTER_URLS) : includes(toLowerCase(url), FARCASTER_URLS[k])

\* isFarcasterMint, where it returns
isFarcasterMint(nft) ==
    \/ toLowerCase(nft.contractAddress) \in FARCASTER_CONTRACTS
    \/ hasKeywords(nft.description)
    \/ hasAttributeKeywords(nft.metadata)
    \/ isFarcasterUrl(nft.externalUrl)
    \/ hasKeywords(nft.collection.name)
    \/ hasKeywords(Field(nft.collection, "description"))

\* isFarcasterMint ends in a TypeError: checks 1 and 3 were negative and
\* hasAttributeKeywords reached an attribute without trait_type.
isFarcasterMintThrows(nft) ==
    /\ toLowerCase(nft.contractAddress) \notin FARCASTER_CONTRACTS
    /\ ~hasKeywords(nft.description)
    /\ "attributes" \in DOMAIN nft.metadata
    /\ FirstUntyped(nft.metadata.attributes) > 0
    /\ \A j \in 1..(FirstUntyped(nft.metadata.attributes) - 1) :
          ~AttrHasKeyword(nft.metadata.attributes[j])

\* for (const pattern of CHANNEL_PATTERNS), from pattern p on
RECURSIVE FirstCapture(_, _)
FirstCapture(text, p) ==
    IF p > Len(CHANNEL_PATTERNS) THEN Undefined
    ELSE LET m == match(text, CHANNEL_PATTERNS[p])
         IN  IF m # Undefined THEN toLowerCase(m) ELSE FirstCapture(text, p + 1)

\* extractChannelFromText
extractChannelFromText(text) ==
    IF Blank(text) THEN Undefined ELSE FirstCapture(text, 1)

\* The callback of attributes.find in extractChannel
IsChannelAttr(attr) ==
    \/ includes(toLowerCase(attr.trait_type), <<"c", "h", "a", "n", "n", "e", "l">>)
    \/ includes(toLowerCase(attr.trait_type), <<"f", "a", "r", "c", "a", "s", "t", "e", "r">>)

\* The text of the attribute that find returns, Undefined if it returns none.
ChannelAttrText(metadata) ==
    IF /\ "attributes" \in DOMAIN metadata
       /\ \E i \in 1..Len(metadata.attributes) :
             ~NoTraitType(metadata.attributes[i]) /\ IsChannelAttr(metadata.attributes[i])
    THEN LET i == CHOOSE k \in 1..Len(metadata.attributes) :
                      /\ ~NoTraitType(metadata.attributes[k])
                      /\ IsChannelAttr(metadata.attributes[k])
                      /\ \A j \in 1..(k - 1) :
                            NoTraitType(metadata.attributes[j])
                              \/ ~IsChannelAttr(metadata.attributes[j])
         IN  String(metadata.attributes[i].value)
    ELSE Undefined

\* The texts extractChannel tries, in its order.
ChannelTexts(nft) ==
    <<nft.description, nft.externalUrl, ChannelAttrText(nft.metadata),
      nft.collection.name, Field(nft.collection, "description")>>

\* The channel of the first text, from text t on, that yields one.
RECURSIVE FirstChannel(_, _)
FirstChannel(texts, t) ==
    IF t > Len(texts) THEN Undefined
    ELSE LET channel == extractChannelFromText(texts[t])
         IN  IF channel # Undefined THEN channel ELSE FirstChannel(texts, t + 1)

\* extractChannel, where it returns
extractChannel(nft) == FirstChannel(ChannelTexts(nft), 1)

\* extractChannel ends in a TypeError: description and external URL gave no
\* channel and find reached an attribute without trait_type.
extractChannelThrows(nft) ==
    /\ extractChannelFromText(nft.description) = Undefined
    /\ extractChannelFromText(nft.externalUrl) = Undefined
    /\ "attributes" \in DOMAIN nft.metadata
    /\ FirstUntyped(nft.metadata.attributes) > 0
    /\ \A j \in 1..(FirstUntyped(nft.metadata.attributes) - 1) :
          ~IsChannelAttr(nft.metadata.attributes[j])

\* enrichNFT, where it returns
enrichNFT(nft) ==
    [nft EXCEPT !.metadata =
        Merge(nft.metadata,
              [isFarcasterMint |-> isFarcasterMint(nft),
               farcasterChannel |-> IF isFarcasterMint(nft) THEN extractChannel(nft)
                                    ELSE Undefined])]

enrichNFTThrows(nft) ==
    \/ isFarcasterMintThrows(nft)
    \/ isFarcasterMint(nft) /\ extractChannelThrows(nft)

(* The NFT records the detector is called with *)

Attr(trait, value) == [trait_type |-> trait, value |-> value]

\* NFT records of the declared type: every attribute has a trait_type.
DetectNFTs ==
    LET \* "0x7C74DFE3...": an allow-listed contract as a provider spells it, and another
        \* contract
        DetectContracts ==
            {<<"0", "x", "7", "C", "7", "4", "D", "F", "E", "3", "9", "9", "7", "6", "D", "C", "3", "9", "5", "5", "2", "9", "C", "1", "4", "E", "5", "4", "A", "5", "9", "7", "8", "0", "9", "9", "8", "0", "E", "0", "1", "C">>,
             <<"0", "x", "a", "b", "c">>}
        DetectChains == {<<"evm", "base">>, <<"evm", "ethereum">>}
        \* absent, '', 'A nice picture', 'Minted on Farcaster', 'Join farcaster.xyz/Art',
        \* 'See https://farcaster.xyz/art', 'channel: Dev'
        DetectDescriptions ==
            {Undefined,
             <<>>,
             <<"A", " ", "n", "i", "c", "e", " ", "p", "i", "c", "t", "u", "r", "e">>,
             <<"M", "i", "n", "t", "e", "d", " ", "o", "n", " ", "F", "a", "r", "c", "a", "s", "t", "e", "r">>,
             <<"J", "o", "i", "n", " ", "f", "a", "r", "c", "a", "s", "t", "e", "r", ".", "x", "y", "z", "/", "A", "r", "t">>,
             <<"S", "e", "e", " ", "h", "t", "t", "p", "s", ":", "/", "/", "f", "a", "r", "c", "a", "s", "t", "e", "r", ".", "x", "y", "z", "/", "a", "r", "t">>,
             <<"c", "h", "a", "n", "n", "e", "l", ":", " ", "D", "e", "v">>}
        \* absent, 'https://example.com', 'https://example.com?ref=warpcast.com',
        \* 'https://warpcast.com/~/channel/art'
        DetectUrls ==
            {Undefined,
             <<"h", "t", "t", "p", "s", ":", "/", "/", "e", "x", "a", "m", "p", "l", "e", ".", "c", "o", "m">>,
             <<"h", "t", "t", "p", "s", ":", "/", "/", "e", "x", "a", "m", "p", "l", "e", ".", "c", "o", "m", "?", "r", "e", "f", "=", "w", "a", "r", "p", "c", "a", "s", "t", ".", "c", "o", "m">>,
             <<"h", "t", "t", "p", "s", ":", "/", "/", "w", "a", "r", "p", "c", "a", "s", "t", ".", "c", "o", "m", "/", "~", "/", "c", "h", "a", "n", "n", "e", "l", "/", "a", "r", "t">>}
        \* absent, [], and lists of trait/value pairs
        DetectAttributes ==
            {<<>>,
             <<Attr(<<"C", "o", "l", "o", "r">>, [str |-> <<"r", "e", "d">>])>>,
             <<Attr(<<"L", "e", "v", "e", "l">>, [num |-> 7])>>,
             <<Attr(<<"P", "l", "a", "t", "f", "o", "r", "m">>, [str |-> <<"W", "a", "r", "p", "c", "a", "s", "t">>])>>,
             <<Attr(<<"F", "a", "r", "c", "a", "s", "t", "e", "r", " ", "C", "h", "a", "n", "n", "e", "l">>, [str |-> <<"/", "m", "e", "m", "e", "s">>])>>,
             <<Attr(<<"C", "h", "a", "n", "n", "e", "l">>, [str |-> <<"n", "o", "n", "e">>]),
               Attr(<<"c", "h", "a", "n", "n", "e", "l">>, [str |-> <<"/", "m", "e", "m", "e", "s">>])>>}
        \* 'Alpha', 'Farcaster Mint Club'
        DetectCollectionNames ==
            {<<"A", "l", "p", "h", "a">>,
             <<"F", "a", "r", "c", "a", "s", "t", "e", "r", " ", "M", "i", "n", "t", " ", "C", "l", "u", "b">>}
        \* absent, 'channel: lobby'
        DetectCollectionDescriptions ==
            {Undefined,
             <<"c", "h", "a", "n", "n", "e", "l", ":", " ", "l", "o", "b", "b", "y">>}
        MkDetectNFT(contract, chain, description, url, metadata, name, collDescription) ==
            [contractAddress |-> contract, chain |-> chain[1], evmChain |-> chain[2],
             description |-> description, externalUrl |-> url, metadata |-> metadata,
             collection |-> [name |-> name, description |-> collDescription]]
    IN
        {MkDetectNFT(c, ch, d, u, m, n, cd) :
            c \in DetectContracts, ch \in DetectChains, d \in DetectDescriptions,
            u \in DetectUrls,
            m \in {[isFarcasterMint |-> FALSE]}
                     \cup {[attributes |-> a, isFarcasterMint |-> FALSE] : a \in DetectAttributes},
            n \in DetectCollectionNames, cd \in DetectCollectionDescriptions}

InitDetect ==
    /\ callee = "none"
    /\ input \in {[nft |-> n] : n \in DetectNFTs}
    /\ result = Null

\* What a call gives its caller: the returned value or the thrown error.
Outcome(throws, value) ==
    IF throws THEN [thrown |-> "TypeError"] ELSE [value |-> value]

IsFarcasterMint ==
    /\ callee = "none"
    /\ callee' = "isFarcasterMint"
    /\ result' = Outcome(isFarcasterMintThrows(input.nft), isFarcasterMint(input.nft))
    /\ UNCHANGED input
    /\ UNCHANGED <<storeVars, idVars, heliusVars, alchemyVars, refreshVars>>

ExtractChannel ==
    /\ callee = "none"
    /\ callee' = "extractChannel"
    /\ result' = Outcome(extractChannelThrows(input.nft), extractChannel(input.nft))
    /\ UNCHANGED input
    /\ UNCHANGED <<storeVars, idVars, heliusVars, alchemyVars, refreshVars>>

EnrichNFT ==
    /\ callee = "none"
    /\ callee' = "enrichNFT"
    /\ result' = Outcome(enrichNFTThrows(input.nft), enrichNFT(input.nft))
    /\ UNCHANGED input
    /\ UNCHANGED <<storeVars, idVars, heliusVars, alchemyVars, refreshVars>>

----------------------------------------------------------------------------
(* The normalizer: provider records to NFT records.  lastFetched and mintedAt *)
(* (clock readings) are left out of the records.                              *)

(* The provider records the normalizer is called with.  A property that a     *)
(* provider may leave out is a field that the record may lack.                *)

MaxUrlParts == 3       \* parts an image URL is put together from

\* The URL strings normalizeImageUrl is called with.
ImageUrls ==
    LET \* 'ipfs://', 'ar://', 'https://', 'abc', '/'
        UrlParts ==
            {<<"i", "p", "f", "s", ":", "/", "/">>,
             <<"a", "r", ":", "/", "/">>,
             <<"h", "t", "t", "p", "s", ":", "/", "/">>,
             <<"a", "b", "c">>,
             <<"/">>}
    IN
        {Flatten(parts) : parts \in SeqsUpTo(UrlParts, MaxUrlParts)}

\* A record with the fields of base and, for each optional field named in
\* with, that field of extras.
Pick(base, extras, with) ==
    [f \in DOMAIN base \cup with |-> IF f \in with THEN extras[f] ELSE base[f]]

\* An attribute without trait_type, as collection metadata in the wild has them.
UntypedAttr == [value |-> [str |-> <<"r", "e", "d">>]]

\* AlchemyNFT records: contract, media, metadata and contractMetadata may be absent.
AlchemyNFTs ==
    LET AlchemyContracts ==
            {[address |-> <<"0", "x", "A", "B", "C">>],
             [address |-> <<"0", "x", "A", "B", "C">>, name |-> <<"P", "u", "n", "k", "s">>],
             [name |-> <<"P", "u", "n", "k", "s">>]}
        \* [{gateway, raw, thumbnail}], with a blank gateway, with both blank, and []
        AlchemyMedia ==
            {<<>>,
             <<[gateway |-> <<"h", "t", "t", "p", "s", ":", "/", "/", "g", ".", "i", "o", "/", "i", ".", "p", "n", "g">>, raw |-> <<"i", "p", "f", "s", ":", "/", "/", "r", "a", "w">>, thumbnail |-> <<"a", "r", ":", "/", "/", "t", "h", "u", "m", "b">>]>>,
             <<[gateway |-> <<>>, raw |-> <<"i", "p", "f", "s", ":", "/", "/", "r", "a", "w">>]>>,
             <<[gateway |-> <<>>, raw |-> <<>>]>>}
        AlchemyMetadata ==
            {<<>>,
             [image |-> <<"i", "p", "f", "s", ":", "/", "/", "a", "b", "c">>],
             [image |-> <<"a", "r", ":", "/", "/", "x", "y", "z">>, name |-> <<"A", "p", "e">>, description |-> <<"M", "i", "n", "t", "e", "d", " ", "o", "n", " ", "F", "a", "r", "c", "a", "s", "t", "e", "r">>],
             [external_url |-> <<"h", "t", "t", "p", "s", ":", "/", "/", "w", "a", "r", "p", "c", "a", "s", "t", ".", "c", "o", "m", "/", "~", "/", "c", "h", "a", "n", "n", "e", "l", "/", "a", "r", "t">>,
              attributes |-> <<Attr(<<"P", "l", "a", "t", "f", "o", "r", "m">>, [str |-> <<"W", "a", "r", "p", "c", "a", "s", "t">>])>>],
             [attributes |-> <<UntypedAttr>>]}
        AlchemyContractMetadata ==
            {<<>>,
             [name |-> <<"A", "p", "e", "s">>],
             [name |-> <<"A", "p", "e", "s">>, openSea |-> [floorPrice |-> 2, imageUrl |-> <<"i", "p", "f", "s", ":", "/", "/", "c", "o", "l", "l">>]],
             [openSea |-> [floorPrice |-> 0]]}
    IN
        {Pick([tokenId |-> <<"7">>, title |-> t],
              [contract |-> c, media |-> m, metadata |-> md, contractMetadata |-> cm],
              with) :
            t \in {<<>>, <<"A", "p", "e">>},
            c \in AlchemyContracts, m \in AlchemyMedia, md \in AlchemyMetadata,
            cm \in AlchemyContractMetadata,
            with \in {{"contract", "media", "metadata", "contractMetadata"},
                      {"contract", "media", "metadata"},
                      {"contract", "metadata"},
                      {"contract", "media"},
                      {"media", "metadata"}}}

\* HeliusAsset records: content and grouping may be absent.
HeliusAssetRecords ==
    LET HeliusContents ==
            {[metadata |-> [name |-> <<"M", "a", "d", " ", "L", "a", "d">>, symbol |-> <<"M", "A", "D">>]],
             [metadata |-> [name |-> <<>>, symbol |-> <<>>, description |-> <<"A", " ", "f", "a", "r", "c", "a", "s", "t", "e", "r", " ", "m", "i", "n", "t">>,
                            attributes |-> <<UntypedAttr>>],
              links |-> [image |-> <<"a", "r", ":", "/", "/", "x", "y", "z">>, external_url |-> <<"h", "t", "t", "p", "s", ":", "/", "/", "e", "x", "a", "m", "p", "l", "e", ".", "c", "o", "m">>]],
             [links |-> [image |-> <<"i", "p", "f", "s", ":", "/", "/", "a", "b", "c">>]]}
        HeliusGroupings ==
            {<<>>,
             <<[group_key |-> "collection", group_value |-> <<"C", "o", "l", "l", "1">>]>>,
             <<[group_key |-> "creator", group_value |-> <<"C", "r", "e", "a", "t", "o", "r", "1">>],
               [group_key |-> "collection", group_value |-> <<"C", "o", "l", "l", "1">>]>>}
    IN
        {Pick([id |-> <<"M", "i", "n", "t", "1">>], [content |-> c, grouping |-> g], with) :
            c \in HeliusContents, g \in HeliusGroupings,
            with \in {{"content", "grouping"}, {"content"}, {"grouping"}}}

\* String.prototype.startsWith
startsWith(text, prefix) ==
    Len(text) >= Len(prefix) /\ SubSeq(text, 1, Len(prefix)) = prefix

\* String.prototype.replace(pattern, by) with a string pattern: the first occurrence
replace(text, pattern, by) ==
    IF ~includes(text, pattern) THEN text
    ELSE LET i == CHOOSE k \in 1..Len(text) :
                      /\ SubSeq(text, k, k + Len(pattern) - 1) = pattern
                      /\ \A j \in 1..(k - 1) : SubSeq(text, j, j + Len(pattern) - 1) # pattern
         IN  SubSeq(text, 1, i - 1) \o by \o SubSeq(text, i + Len(pattern), Len(text))

IPFS_SCHEME == <<"i", "p", "f", "s", ":", "/", "/">>

AR_SCHEME == <<"a", "r", ":", "/", "/">>

\* Variant of IPFS_GATEWAY that is itself an ipfs:// URL.
IPFS_GATEWAY_OnIpfs == <<"i", "p", "f", "s", ":", "/", "/", "i", "p", "f", "s", ".", "i", "o", "/">>

IPFS_GATEWAY == <<"h", "t", "t", "p", "s", ":", "/", "/", "i", "p", "f", "s", ".", "i", "o", "/", "i", "p", "f", "s", "/">>

ARWEAVE_GATEWAY == <<"h", "t", "t", "p", "s", ":", "/", "/", "a", "r", "w", "e", "a", "v", "e", ".", "n", "e", "t", "/">>

normalizeImageUrl(url) ==
    IF Blank(url) THEN <<>>
    ELSE IF startsWith(url, IPFS_SCHEME)
    THEN IPFS_GATEWAY \o replace(url, IPFS_SCHEME, <<>>)
    ELSE IF startsWith(url, AR_SCHEME)
    THEN ARWEAVE_GATEWAY \o replace(url, AR_SCHEME, <<>>)
    ELSE url

\* Variant of FirstMedia that never finds a media entry.
FirstMedia_None(alchemyNFT) == <<>>

\* alchemyNFT.media?.[0]
FirstMedia(alchemyNFT) ==
    IF "media" \in DOMAIN alchemyNFT /\ Len(alchemyNFT.media) > 0
    THEN alchemyNFT.media[1] ELSE <<>>

\* fromAlchemy ends in a TypeError: alchemyNFT.contract.address.toLowerCase()
fromAlchemyNFTThrows(alchemyNFT) ==
    \/ "contract" \notin DOMAIN alchemyNFT
    \/ "address" \notin DOMAIN alchemyNFT.contract

\* NFTNormalizer.fromAlchemy, where it returns
fromAlchemyNFT(alchemyNFT, walletId, chain) ==
    LET contractAddress == toLowerCase(alchemyNFT.contract.address)
        tokenId == alchemyNFT.tokenId
        metadata == Sub(alchemyNFT, "metadata")
        contractMetadata == Sub(alchemyNFT, "contractMetadata")
        openSea == Sub(contractMetadata, "openSea")
        image == Or(Or(Or(Field(FirstMedia(alchemyNFT), "gateway"),
                          Field(FirstMedia(alchemyNFT), "raw")),
                       Field(metadata, "image")),
                    <<>>)
        thumbnail == Field(FirstMedia(alchemyNFT), "thumbnail")
    IN  [id |-> EVM \o COLON \o chain \o COLON \o contractAddress \o COLON \o tokenId,
         walletId |-> walletId,
         chain |-> "evm",
         evmChain |-> chain,
         contractAddress |-> contractAddress,
         tokenId |-> tokenId,
         name |-> Or(Or(Field(alchemyNFT, "title"), Field(metadata, "name")),
                     <<"#">> \o tokenId),
         description |-> Or(Field(alchemyNFT, "description"), Field(metadata, "description")),
         image |-> normalizeImageUrl(image),
         imageOptimized |-> IF Blank(thumbnail) THEN Undefined
                            ELSE normalizeImageUrl(thumbnail),
         externalUrl |-> Field(metadata, "external_url"),
         collection |->
            Merge([name |-> Or(Or(Field(contractMetadata, "name"),
                                  Field(alchemyNFT.contract, "name")),
                               <<"U", "n", "k", "n", "o", "w", "n", " ", "C", "o", "l", "l", "e", "c", "t", "i", "o", "n">>),
                   address |-> contractAddress,
                   imageUrl |-> Field(openSea, "imageUrl")],
                  IF "floorPrice" \in DOMAIN openSea /\ openSea.floorPrice # 0
                  THEN [floorPrice |-> [amount |-> openSea.floorPrice, currency |-> "ETH"]]
                  ELSE <<>>),
         metadata |-> [attributes |-> Sub(metadata, "attributes"),
                       isFarcasterMint |-> FALSE]]

\* fromHelius ends in a TypeError: heliusAsset.grouping.find, heliusAsset.content.links,
\* metadata.name
fromHeliusAssetThrows(heliusAsset) ==
    \/ "grouping" \notin DOMAIN heliusAsset
    \/ "content" \notin DOMAIN heliusAsset
    \/ "metadata" \notin DOMAIN heliusAsset.content

\* NFTNormalizer.fromHelius, where it returns
fromHeliusAsset(heliusAsset, walletId) ==
    LET groups == SelectSeq(heliusAsset.grouping, LAMBDA g : g.group_key = "collection")
        collectionAddress ==
            Or(IF Len(groups) = 0 THEN Undefined ELSE Field(groups[1], "group_value"),
               heliusAsset.id)
        links == Sub(heliusAsset.content, "links")
        metadata == heliusAsset.content.metadata
    IN  [id |-> SOLANA \o COLON \o heliusAsset.id,
         walletId |-> walletId,
         chain |-> "solana",
         contractAddress |-> collectionAddress,
         tokenId |-> heliusAsset.id,
         name |-> Or(Field(metadata, "name"), <<"U", "n", "k", "n", "o", "w", "n">>),
         description |-> Field(metadata, "description"),
         image |-> normalizeImageUrl(Or(Field(links, "image"), <<>>)),
         externalUrl |-> Field(links, "external_url"),
         collection |-> [name |-> Or(Field(metadata, "symbol"), <<"U", "n", "k", "n", "o", "w", "n", " ", "C", "o", "l", "l", "e", "c", "t", "i", "o", "n">>),
                         address |-> collectionAddress],
         metadata |-> [attributes |-> Sub(metadata, "attributes"),
                       isFarcasterMint |-> FALSE]]

NormalizerWalletId == "wallet_1"

InitNormalize ==
    /\ callee = "none"
    /\ input \in {[alchemyNFT |-> r] : r \in AlchemyNFTs}
                   \cup {[heliusAsset |-> a] : a \in HeliusAssetRecords}
                   \cup {[url |-> u] : u \in ImageUrls}
    /\ result = Null

FromAlchemy(chain) ==
    /\ callee = "none"
    /\ "alchemyNFT" \in DOMAIN input
    /\ callee' = "fromAlchemy"
    /\ result' = Merge([chain |-> chain],
                       Outcome(fromAlchemyNFTThrows(input.alchemyNFT),
                               fromAlchemyNFT(input.alchemyNFT, NormalizerWalletId, chain)))
    /\ UNCHANGED input
    /\ UNCHANGED <<storeVars, idVars, heliusVars, alchemyVars, refreshVars>>

FromHelius ==
    /\ callee = "none"
    /\ "heliusAsset" \in DOMAIN input
    /\ callee' = "fromHelius"
    /\ result' = Outcome(fromHeliusAssetThrows(input.heliusAsset),
                         fromHeliusAsset(input.heliusAsset, NormalizerWalletId))
    /\ UNCHANGED input
    /\ UNCHANGED <<storeVars, idVars, heliusVars, alchemyVars, refreshVars>>

\* normalizeImageUrl(url), then normalizeImageUrl of what it returned
NormalizeImageUrl ==
    /\ "url" \in DOMAIN input
    /\ \/ /\ callee = "none"
          /\ result' = [value |-> normalizeImageUrl(input.url)]
       \/ /\ callee = "normalizeImageUrl"
          /\ "once" \notin DOMAIN result
          /\ result' = [once |-> result.value, value |-> normalizeImageUrl(result.value)]
    /\ callee' = "normalizeImageUrl"
    /\ UNCHANGED input
    /\ UNCHANGED <<storeVars, idVars, heliusVars, alchemyVars, refreshVars>>

\* The detector is called with the record the normalizer returned.
DetectNormalized(fn) ==
    /\ callee \in {"fromAlchemy", "fromHelius"}
    /\ "value" \in DOMAIN result
    /\ callee' = fn
    /\ input' = [nft |-> result.value]
    /\ result' = IF fn = "isFarcasterMint"
                 THEN Outcome(isFarcasterMintThrows(result.value), isFarcasterMint(result.value))
                 ELSE IF fn = "extractChannel"
                 THEN Outcome(extractChannelThrows(result.value), extractChannel(result.value))
                 ELSE Outcome(enrichNFTThrows(result.value), enrichNFT(result.value))
    /\ UNCHANGED <<storeVars, idVars, heliusVars, alchemyVars, refreshVars>>

----------------------------------------------------------------------------
(* FarcasterDetector.groupByChannel *)

MaxChannelList == 3    \* longest list handed to groupByChannel

UNKNOWN_CHANNEL == <<"U", "n", "k", "n", "o", "w", "n", " ", "C", "h", "a", "n", "n", "e", "l">>

\* The lists of enriched NFTs, the NFT at position i having id i.
ChannelLists ==
    LET \* absent, '', 'art', 'dev'
        ChannelValues ==
            {Undefined, <<>>, <<"a", "r", "t">>, <<"d", "e", "v">>}
    IN
        UNION {[1..n -> {[flag |-> f, channel |-> c] : f \in BOOLEAN, c \in ChannelValues}] :
                  n \in 0..MaxChannelList}

EnrichedList(choice) ==
    [i \in 1..Len(choice) |->
        [id |-> i,
         metadata |-> [isFarcasterMint |-> choice[i].flag,
                       farcasterChannel |-> choice[i].channel]]]

\* Variant of ChannelKey without the default label.
ChannelKey_NoDefault(nft) == nft.metadata.farcasterChannel

\* nft.metadata.farcasterChannel || 'Unknown Channel'
ChannelKey(nft) == Or(nft.metadata.farcasterChannel, UNKNOWN_CHANNEL)

\* groupByChannel: the Map from channel to the flagged NFTs pushed under it, in
\* the order of the list.
groupByChannel(list) ==
    LET flagged == SelectSeq(list, LAMBDA n : n.metadata.isFarcasterMint)
        keys == {ChannelKey(flagged[i]) : i \in 1..Len(flagged)}
    IN  [k \in keys |-> SelectSeq(flagged, LAMBDA n : ChannelKey(n) = k)]

InitChannels ==
    /\ callee = "none"
    /\ input \in {[nfts |-> EnrichedList(c)] : c \in ChannelLists}
    /\ result = Null

GroupByChannel ==
    /\ callee = "none"
    /\ callee' = "groupByChannel"
    /\ result' = [value |-> groupByChannel(input.nfts)]
    /\ UNCHANGED input
    /\ UNCHANGED <<storeVars, idVars, heliusVars, alchemyVars, refreshVars>>

----------------------------------------------------------------------------
(* The caller that refreshes a wallet: it calls fetchForWallet for a wallet   *)
(* of the store, awaits the list and hands it to setNFTs.  The fetch itself   *)
(* does not touch the store and cannot be cancelled; it is left to the list   *)
(* it ends with.                                                              *)

\* Lists fetchForWallet(address, walletId) can return: every record carries walletId.
FetchedLists(walletId) == {l \in NFTLists : \A i \in 1..Len(l) : l[i].walletId = walletId}

\* A refresh of wallet w starts: fetchForWallet is called and awaited.
RefreshStart(w) ==
    /\ \E i \in 1..Len(wallets) : wallets[i].id = w
    /\ w \notin inflight
    /\ inflight' = inflight \cup {w}
    /\ UNCHANGED <<storeVars, idVars, heliusVars, alchemyVars, callVars>>

\* The fetch of wallet w returns list: the caller calls setNFTs(w, list).
RefreshComplete(w, list) ==
    /\ w \in inflight
    /\ inflight' = inflight \ {w}
    /\ LET r == SetNFTsResult(w, list)
       IN  /\ \A k \in DOMAIN r.collections : r.collections[k].nftCount <= MaxCount
           /\ nfts' = r.nfts
           /\ collections' = r.collections
    /\ everSet' = IF list # <<>> THEN everSet \cup {w} ELSE everSet
    /\ lastOp' = [op |-> "setNFTs", id |-> w]
    /\ UNCHANGED <<wallets, activeWalletId, customGroups, viewMode, sortMode,
                   filterOptions, settings, walletSeq, groupSeq>>
    /\ UNCHANGED <<idVars, heliusVars, alchemyVars, callVars>>
    /\ storage' = Persisted

\* The fetch of wallet w throws: the caller has nothing to store.
RefreshFail(w) ==
    /\ w \in inflight
    /\ inflight' = inflight \ {w}
    /\ UNCHANGED <<storeVars, idVars, heliusVars, alchemyVars, callVars>>

----------------------------------------------------------------------------
(* Specifications *)

InitFetchIdle ==
    /\ hPc = "idle" /\ hPage = 1 /\ hHasMore = TRUE
    /\ hAll = <<>> /\ hReqs = <<>> /\ hResps = <<>>
    /\ aPc = "idle" /\ aChain = "ethereum" /\ aPageKey = NoPageKey /\ aHasMore = TRUE
    /\ aAll = <<>> /\ aReqs = <<>> /\ aResps = <<>>

InitRefreshIdle == inflight = {}

InitCallIdle ==
    /\ callee = "none"
    /\ input = Null
    /\ result = Null

Init == InitStore /\ InitIdIdle /\ InitFetchIdle /\ InitCallIdle /\ InitRefreshIdle

\* Wallets, NFTs and collection aggregates.
Next ==
    \/ addWallet
    \/ \E id \in WalletIds : removeWallet(id)
    \/ \E w \in WalletIds, l \in NFTLists : setNFTs(w, l)
    \/ \E id \in NftIds, u \in NFTUpdates : updateNFT(id, u)
    \/ \E w \in WalletIds : removeNFTsByWallet(w)
    \/ clearAllData

Spec == Init /\ [][Next]_vars

\* Wallet refreshes interleaved with the adding and removing of wallets.
NextRefresh ==
    \/ addWallet
    \/ \E id \in WalletIds : removeWallet(id)
    \/ \E w \in WalletIds : RefreshStart(w)
    \/ \E w \in WalletIds : \E l \in FetchedLists(w) : RefreshComplete(w, l)
    \/ \E w \in WalletIds : RefreshFail(w)

SpecRefresh == Init /\ [][NextRefresh]_vars

\* The wallet list and the active wallet.
NextWallets ==
    \/ addWallet
    \/ \E id \in WalletIds : removeWallet(id)
    \/ \E id \in WalletIds, u \in WalletUpdates : updateWallet(id, u)
    \/ clearAllData

SpecWallets == Init /\ [][NextWallets]_vars

\* Custom groups.
NextGroups ==
    \/ createGroup("group")
    \/ \E g \in GroupIds, u \in GroupUpdates : updateGroup(g, u)
    \/ \E g \in GroupIds : deleteGroup(g)
    \/ \E g \in GroupIds, l \in MemberLists : addToGroup(g, l)
    \/ \E g \in GroupIds, l \in MemberLists : removeFromGroup(g, l)

SpecGroups == Init /\ [][NextGroups]_vars

\* Persistence across a restart.
NextPersist ==
    \/ addWallet
    \/ setNFTs(1, <<MkNFT("evm:ethereum:0xc1:1", 1)>>)
    \/ createGroup("group")
    \/ \E m \in ViewModes : setViewMode(m)
    \/ \E m \in SortModes : setSortMode(m)
    \/ \E o \in FilterValues : setFilterOptions(o)
    \/ \E u \in SettingsUpdates : updateSettings(u)
    \/ restart

SpecPersist == Init /\ [][NextPersist]_vars


\* The composite-id helpers on every bounded argument tuple.
NextId == GenerateId \/ ParseId

InitIdInputs == InitStore /\ InitId /\ InitFetchIdle /\ InitCallIdle /\ InitRefreshIdle

SpecId == InitIdInputs /\ [][NextId]_vars

\* The grid's arrangement of every bounded list, for every sort mode.
NextGrid == \E mode \in SortModes : GroupAndSort(mode)

InitGridInputs == InitStore /\ InitIdIdle /\ InitFetchIdle /\ InitGrid /\ InitRefreshIdle

SpecGrid == InitGridInputs /\ [][NextGrid]_vars

\* The detector on every NFT record of the input set.
NextDetect == IsFarcasterMint \/ ExtractChannel \/ EnrichNFT

InitDetectInputs == InitStore /\ InitIdIdle /\ InitFetchIdle /\ InitDetect /\ InitRefreshIdle

SpecDetect == InitDetectInputs /\ [][NextDetect]_vars

\* The normalizer on every provider record of the input set, and the detector on
\* what it returned.
NextNormalize ==
    \/ \E chain \in {ETHEREUM, POLYGON} : FromAlchemy(chain)
    \/ FromHelius
    \/ NormalizeImageUrl
    \/ \E fn \in {"isFarcasterMint", "extractChannel", "enrichNFT"} : DetectNormalized(fn)

InitNormalizeInputs == InitStore /\ InitIdIdle /\ InitFetchIdle /\ InitNormalize /\ InitRefreshIdle

SpecNormalize == InitNormalizeInputs /\ [][NextNormalize]_vars

\* groupByChannel on every bounded list of enriched NFTs.
NextChannels == GroupByChannel

InitChannelsInputs == InitStore /\ InitIdIdle /\ InitFetchIdle /\ InitChannels /\ InitRefreshIdle

SpecChannels == InitChannelsInputs /\ [][NextChannels]_vars

\* The fetch of one wallet, by the fetcher of its chain family, against every
\* provider behaviour.
NextFetch ==
    \/ HeliusStart
    \/ HeliusLoop
    \/ \E n \in ShortPages \cup {HeliusLimit} : HeliusPage(n)
    \/ \E kind \in {"http", "rpc"} : HeliusFail(kind)
    \/ \E chain \in EvmChains : AlchemyStart(chain)
    \/ AlchemyLoop
    \/ \E n \in PageItemCounts, k \in PageKeys : AlchemyPage(n, k)
    \/ AlchemyFail

SpecFetch == Init /\ [][NextFetch]_vars

\* The provider answers the request that is awaited: with a page or a failure.
HeliusResponse ==
    \/ \E n \in ShortPages \cup {HeliusLimit} : HeliusPage(n)
    \/ \E kind \in {"http", "rpc"} : HeliusFail(kind)

AlchemyResponse ==
    \/ \E n \in PageItemCounts, k \in PageKeys : AlchemyPage(n, k)
    \/ AlchemyFail

\* A step of the fetchForWallet call that is running.
FetchStep == HeliusLoop \/ HeliusResponse \/ AlchemyLoop \/ AlchemyResponse

\* One fetchForWallet call, of either fetcher, against every provider behaviour.
NextFetchCall ==
    \/ HeliusStart
    \/ hPc = "idle" /\ \E chain \in EvmChains : AlchemyStart(chain)
    \/ FetchStep

\* The call under its scheduling: a fetcher that can take its next step takes
\* it, and every page request gets a response.
SpecFetchLive == Init /\ [][NextFetchCall]_vars /\ WF_vars(FetchStep)

----------------------------------------------------------------------------
(* Properties of the store *)

Range(list) == {list[i] : i \in 1..Len(list)}

\* The NFT records stored under a wallet id.
StoredFor(m, w) == {m[k] : k \in {x \in DOMAIN m : m[x].walletId = w}}

\* C1: in every reachable state each Collection aggregate's nftCount equals the
\* number of stored NFT records whose chain and contractAddress form its key.
C1_CountMatchesStoredNFTs ==
    \A key \in DOMAIN collections :
        collections[key].nftCount =
            Cardinality({k \in DOMAIN nfts : CollectionId(nfts[k]) = key})

\* C2: setNFTs(walletId, list) with a list whose records all carry walletId leaves,
\* as one store transition, exactly the records of the list (one per id) stored under
\* walletId, and every NFT of that wallet that is not in the list is gone.
C2_SetNFTsReplacesWalletSlice ==
    [][\A l \in NFTLists :
          (/\ lastOp'.op = "setNFTs"
           /\ setNFTs(lastOp'.id, l)
           /\ \A r \in Range(l) : r.walletId = lastOp'.id)
          => LET w == lastOp'.id
                 after == StoredFor(nfts', w)
             IN  /\ after = Range(l)
                 /\ \A r1, r2 \in after : r1.id = r2.id => r1 = r2
                 /\ \A old \in StoredFor(nfts, w) :
                       old \notin Range(l) => old \notin {nfts'[k] : k \in DOMAIN nfts'}
      ]_vars

\* C3: removeNFTsByWallet(walletId), and setNFTs(walletId, []) after an earlier
\* non-empty setNFTs(walletId, X), leave no stored NFT with that walletId and leave
\* the collections map exactly as it was.
C3_RemovalKeepsCollections ==
    [][(\/ lastOp'.op = "removeNFTsByWallet" /\ removeNFTsByWallet(lastOp'.id)
        \/ /\ lastOp'.op = "setNFTs"
           /\ setNFTs(lastOp'.id, <<>>)
           /\ lastOp'.id \in everSet)
          => /\ StoredFor(nfts', lastOp'.id) = {}
             /\ collections' = collections
      ]_vars

\* C4: after removeWallet(id) no wallet has that id, no stored NFT has that walletId,
\* and activeWalletId is the first remaining wallet's id (or unset) if the removed
\* wallet was the active one and is unchanged otherwise.
C4_RemoveWalletCascades ==
    [][lastOp'.op = "removeWallet"
          => LET id == lastOp'.id
             IN  /\ \A i \in 1..Len(wallets') : wallets'[i].id # id
                 /\ StoredFor(nfts', id) = {}
                 /\ activeWalletId' =
                       IF activeWalletId = id
                       THEN (IF wallets' = <<>> THEN None ELSE wallets'[1].id)
                       ELSE activeWalletId
      ]_vars

\* C5: an update or delete that names an id not present in the store leaves wallets,
\* activeWalletId, nfts, collections and customGroups exactly as they were.
C5_MissingEntityIsNoOp ==
    [][(\/ lastOp'.op = "updateNFT" /\ lastOp'.nft \notin DOMAIN nfts
        \/ /\ lastOp'.op \in {"removeWallet", "updateWallet"}
           /\ \A i \in 1..Len(wallets) : wallets[i].id # lastOp'.id
        \/ /\ lastOp'.op \in {"updateGroup", "deleteGroup", "addToGroup", "removeFromGroup"}
           /\ \A i \in 1..Len(customGroups) : customGroups[i].id # lastOp'.id)
          => UNCHANGED <<wallets, activeWalletId, nfts, collections, customGroups>>
      ]_vars

\* C6: addToGroup(g, S) leaves every group with id g holding exactly its old members
\* union S with no id twice, removeFromGroup(g, S) leaves exactly its old members
\* minus S, neither looks at the nfts map, and every other group is unchanged.
C6_GroupMembershipIsASet ==
    [][lastOp'.op \in {"addToGroup", "removeFromGroup"} =>
          LET g == lastOp'.id
              S == Range(lastOp'.nftIds)
          IN  /\ Len(customGroups') = Len(customGroups)
              /\ \A i \in 1..Len(customGroups) :
                    LET old == customGroups[i].nftIds
                        new == customGroups'[i].nftIds
                    IN  IF customGroups[i].id # g
                        THEN customGroups'[i] = customGroups[i]
                        ELSE IF lastOp'.op = "addToGroup"
                        THEN /\ Range(new) = Range(old) \cup S
                             /\ Cardinality(Range(new)) = Len(new)
                        ELSE Range(new) = Range(old) \ S
      ]_vars

\* Witness for C6: addToGroup has just merged ids, none of them stored in nfts, into
\* a group that now has two distinct members, next to another group.
C6_Witness ==
    /\ lastOp.op = "addToGroup"
    /\ \E i, j \in 1..Len(customGroups) :
          /\ customGroups[i].id = lastOp.id
          /\ customGroups[j].id # lastOp.id
          /\ Len(customGroups[i].nftIds) = 2
          /\ Range(customGroups[i].nftIds) \cap DOMAIN nfts = {}

----------------------------------------------------------------------------
(* Properties of the composite-id helpers *)

\* C8: for both chain families parseId(generateId(chain, contractAddress, tokenId,
\* evmChain)) is the tuple (chain, evmChain, lowercased contractAddress, tokenId)
\* that generateId was given, and is never null.
C8_GenerateParseRoundTrip ==
    idPc = "parsed" =>
        /\ idParsed # Null
        /\ idParsed = [chain |-> idIn.chain, evmChain |-> idIn.evmChain,
                       contractAddress |-> toLowerCase(idIn.contractAddress),
                       tokenId |-> idIn.tokenId]

----------------------------------------------------------------------------
(* Properties of the fetchers *)

\* The items of the pages received so far, in the order of the requests.
PagesReceived(resps) == Flatten([i \in 1..Len(resps) |-> resps[i].items])

\* C9: the EVM fetcher sends the first request without a cursor, every later request
\* with exactly the pageKey of the page before it, no request after the first page
\* that carries no pageKey, and returns the pages' items concatenated in request
\* order.  (A page carries a pageKey when the field is present and not empty.)
C9_AlchemyFollowsPageKey ==
    /\ \A i \in 1..Len(aReqs) :
          IF i = 1 THEN "pageKey" \notin DOMAIN aReqs[i]
          ELSE /\ aResps[i - 1].ok
               /\ aResps[i - 1].pageKey \notin {NoPageKey, ""}
               /\ "pageKey" \in DOMAIN aReqs[i]
               /\ aReqs[i].pageKey = aResps[i - 1].pageKey
    /\ \A i \in 1..Len(aResps) :
          (aResps[i].ok /\ aResps[i].pageKey \in {NoPageKey, ""}) => Len(aReqs) = i
    /\ aPc = "done" =>
          /\ \A i \in 1..Len(aResps) : aResps[i].ok
          /\ aResps[Len(aResps)].pageKey \in {NoPageKey, ""}
          /\ aAll = PagesReceived(aResps)

\* Witness for C9: a fetch that followed two different cursors has returned.
C9_Witness ==
    /\ aPc = "done"
    /\ Len(aReqs) = 3
    /\ aReqs[2].pageKey # aReqs[3].pageKey
    /\ Len(aAll) > 2

\* C10: the Solana fetcher requests pages 1, 2, 3, ... with page size 1000, sends
\* the next request only after a page of exactly 1000 items, none after the first
\* page with fewer than 1000 items, and returns the pages' items concatenated in
\* page order.
C10_HeliusFollowsPageCounter ==
    /\ \A i \in 1..Len(hReqs) :
          /\ hReqs[i].page = i
          /\ hReqs[i].limit = 1000
          /\ i > 1 => (hResps[i - 1].ok /\ Len(hResps[i - 1].items) = 1000)
    /\ \A i \in 1..Len(hResps) :
          (hResps[i].ok /\ Len(hResps[i].items) < 1000) => Len(hReqs) = i
    /\ hPc = "done" =>
          /\ \A i \in 1..Len(hResps) : hResps[i].ok
          /\ Len(hResps[Len(hResps)].items) < 1000
          /\ hAll = PagesReceived(hResps)

\* Witness for C10: a fetch that needed a second page after a full one has returned.
C10_Witness ==
    /\ hPc = "done"
    /\ Len(hReqs) >= 2
    /\ Len(hAll) > 1000

\* C11: in both fetchers a failed page request (a non-success HTTP status, or for
\* Solana an error field in the response) ends fetchForWallet in an error outcome
\* that carries none of the items of the pages fetched before, and the failed
\* request is the last request sent: nothing is requested after it, and it is not
\* sent again.
C11_FailedPageAbortsFetch ==
    /\ \A i \in 1..Len(hResps) :
          ~hResps[i].ok =>
              /\ HeliusOutcome \in {[thrown |-> "Helius API error"],
                                    [thrown |-> "Helius RPC error"]}
              /\ Len(hReqs) = i
              /\ \A j \in 1..(i - 1) : hReqs[j] # hReqs[i]
    /\ \A i \in 1..Len(aResps) :
          ~aResps[i].ok =>
              /\ AlchemyOutcome = [thrown |-> "Alchemy API error"]
              /\ Len(aReqs) = i

\* Witness for C11: both fetchers have failed on a page after a page that brought
\* items, the Solana one on an error field in the response.
C11_Witness ==
    /\ hPc = "error"
    /\ hResps[Len(hResps)].kind = "rpc"
    /\ Len(hAll) > 0
    /\ aPc = "error"
    /\ Len(aAll) > 0

----------------------------------------------------------------------------
(* Properties of the grid's arrangement *)

IsHeader(e) == "isHeader" \in DOMAIN e

RECURSIVE SumCounts(_)
SumCounts(items) ==
    IF items = <<>> THEN 0
    ELSE (IF IsHeader(Head(items)) THEN Head(items).count ELSE 0) + SumCounts(Tail(items))

\* The header that the element at position i stands under.
HeaderOf(items, i) ==
    items[CHOOSE h \in 1..i :
              IsHeader(items[h]) /\ \A j \in (h + 1)..i : ~IsHeader(items[j])]

\* C12: the output of groupAndSortNFTs(list, 'collection') has header counts that
\* sum to the length of the list, and every NFT between a header and the next
\* header has collection.name equal to that header's title.
C12_CollectionSections ==
    (callee = "groupAndSortNFTs" /\ result.mode = "collection") =>
        /\ SumCounts(result.items) = Len(input.nfts)
        /\ \A i \in 1..Len(result.items) :
              ~IsHeader(result.items[i]) =>
                  /\ \E h \in 1..i : IsHeader(result.items[h])
                  /\ result.items[i].collection.name = HeaderOf(result.items, i).title

----------------------------------------------------------------------------
(* Properties of the Farcaster detector *)

\* A text is present and contains one of the keywords, in any letter case.
ContainsKeyword(text) ==
    /\ text # Undefined
    /\ \E k \in 1..Len(FARCASTER_KEYWORDS) :
          includes(toLowerCase(text), FARCASTER_KEYWORDS[k])

\* The host of a URL: what stands between "://" and the next "/", "?", "#" or ":"
\* (Undefined if the text has no "://").
HostOf(url) ==
    IF url = Undefined \/ ~includes(url, <<":", "/", "/">>) THEN Undefined
    ELSE LET start == 3 + CHOOSE i \in 1..Len(url) :
                              /\ SubSeq(url, i, i + 2) = <<":", "/", "/">>
                              /\ \A j \in 1..(i - 1) : SubSeq(url, j, j + 2) # <<":", "/", "/">>
             stops == {k \in start..Len(url) : url[k] \in {"/", "?", "#", ":"}}
             end == IF stops = {} THEN Len(url)
                    ELSE (CHOOSE k \in stops : \A m \in stops : k <= m) - 1
         IN  toLowerCase(SubSeq(url, start, end))

\* The five signals of a Farcaster mint.
FarcasterSignals(nft) ==
    \/ toLowerCase(nft.contractAddress) \in FARCASTER_CONTRACTS
    \/ ContainsKeyword(nft.description)
    \/ /\ "attributes" \in DOMAIN nft.metadata
       /\ \E i \in 1..Len(nft.metadata.attributes) :
             \/ ContainsKeyword(nft.metadata.attributes[i].trait_type)
             \/ ContainsKeyword(String(nft.metadata.attributes[i].value))
    \/ HostOf(nft.externalUrl) \in {FARCASTER_URLS[k] : k \in 1..Len(FARCASTER_URLS)}
    \/ ContainsKeyword(nft.collection.name)
    \/ ContainsKeyword(Field(nft.collection, "description"))

\* C13: isFarcasterMint(nft) is true exactly when at least one of the five signals
\* holds (allow-listed contract, keyword in the description, keyword in an
\* attribute's trait type or value, external URL whose host is one of the three
\* known domains, keyword in the collection name or description); the chain being
\* Base is no signal.
C13_MintExactlyOnSignal ==
    callee = "isFarcasterMint" => result = [value |-> FarcasterSignals(input.nft)]

\* The stringified values of the attributes whose trait type contains 'channel' or
\* 'farcaster', in the order of the attribute list.
RECURSIVE ChannelAttrValues(_)
ChannelAttrValues(attributes) ==
    IF attributes = <<>> THEN <<>>
    ELSE (IF IsChannelAttr(Head(attributes)) THEN <<String(Head(attributes).value)>>
          ELSE <<>>)
         \o ChannelAttrValues(Tail(attributes))

\* The texts of an NFT that may name a channel, in the order they are tried.
TextsNamingChannel(nft) ==
    <<nft.description, nft.externalUrl>>
      \o (IF "attributes" \in DOMAIN nft.metadata
          THEN ChannelAttrValues(nft.metadata.attributes) ELSE <<>>)
      \o <<nft.collection.name, Field(nft.collection, "description")>>

\* C14: extractChannel(nft) returns the lower-cased capture of the first of the four
\* patterns that matches the first text that yields any match, the texts being, in
\* order, description, external URL, the stringified value of any attribute whose
\* trait type contains 'channel' or 'farcaster', collection name and collection
\* description; it returns undefined only when no pattern matches any of them.
C14_ChannelFromFirstMatchingText ==
    callee = "extractChannel" =>
        LET texts == TextsNamingChannel(input.nft)
        IN  /\ result = [value |-> FirstChannel(texts, 1)]
            /\ result.value = Undefined =>
                  \A t \in 1..Len(texts), p \in 1..Len(CHANNEL_PATTERNS) :
                      Blank(texts[t]) \/ match(texts[t], CHANNEL_PATTERNS[p]) = Undefined

\* The name in a link farcaster.xyz/<name> of a text (Undefined if it has none).
FarcasterLinkName(text) ==
    IF Blank(text) THEN Undefined ELSE match(text, CHANNEL_PATTERNS[2])

\* C15: for a description that contains a link farcaster.xyz/<name>, also when it
\* is written as a full URL https://farcaster.xyz/<name>, the channel extracted is
\* <name>.
C15_FarcasterLinkGivesChannel ==
    (callee = "extractChannel" /\ FarcasterLinkName(input.nft.description) # Undefined)
        => result = [value |-> toLowerCase(FarcasterLinkName(input.nft.description))]

----------------------------------------------------------------------------
(* Properties of the normalizer *)

\* C16: normalization and detection never end in an error: for every provider
\* record and every NFT record, also with absent or blank fields (contract, media,
\* metadata, grouping, attributes, an attribute's trait type), fromAlchemy,
\* fromHelius, isFarcasterMint, extractChannel and enrichNFT return a value.
C16_NeverThrows ==
    callee \in {"fromAlchemy", "fromHelius", "isFarcasterMint", "extractChannel", "enrichNFT"}
        => "value" \in DOMAIN result /\ "thrown" \notin DOMAIN result

\* The first text of a list that is present and not empty, else ''.
RECURSIVE FirstNonEmpty(_)
FirstNonEmpty(texts) ==
    IF texts = <<>> THEN <<>>
    ELSE IF ~Blank(Head(texts)) THEN Head(texts)
    ELSE FirstNonEmpty(Tail(texts))

\* The image sources of a provider record, in the order of preference.
ImageSources(alchemyNFT) ==
    LET media == IF "media" \in DOMAIN alchemyNFT /\ Len(alchemyNFT.media) >= 1
                 THEN alchemyNFT.media[1] ELSE <<>>
    IN  <<Field(media, "gateway"), Field(media, "raw"),
          Field(Sub(alchemyNFT, "metadata"), "image")>>

\* The record of the scenario: media [], metadata.image 'ipfs://abc', contract
\* '0xABC', tokenId '7'.
ScenarioNFT ==
    [tokenId |-> <<"7">>, title |-> <<>>, contract |-> [address |-> <<"0", "x", "A", "B", "C">>],
     media |-> <<>>, metadata |-> [image |-> <<"i", "p", "f", "s", ":", "/", "/", "a", "b", "c">>]]

NativeToken(chain) == IF chain = POLYGON THEN "MATIC" ELSE "ETH"

\* The floor price the provider record carries (0 if it carries none).
ProviderFloorPrice(alchemyNFT) ==
    LET openSea == Sub(Sub(alchemyNFT, "contractMetadata"), "openSea")
    IN  IF "floorPrice" \in DOMAIN openSea THEN openSea.floorPrice ELSE 0

\* C18: when the provider record carries a floor price, fromAlchemy emits a floor
\* price with the provider's amount and the native token of the chain passed in as
\* its currency; when the provider carries none, floorPrice is absent.
C18_FloorPriceInNativeToken ==
    (callee = "fromAlchemy" /\ "value" \in DOMAIN result) =>
        LET amount == ProviderFloorPrice(input.alchemyNFT)
            collection == result.value.collection
        IN  IF amount # 0
            THEN /\ "floorPrice" \in DOMAIN collection
                 /\ collection.floorPrice =
                       [amount |-> amount, currency |-> NativeToken(result.chain)]
            ELSE "floorPrice" \notin DOMAIN collection

\* C19: normalizeImageUrl is idempotent: for every URL string (ipfs://, ar://, any
\* other string, the empty string) applying it to its own result changes nothing.
C19_NormalizeImageUrlIdempotent ==
    (callee = "normalizeImageUrl" /\ "once" \in DOMAIN result) =>
        result.value = result.once

\* Witness for C19: normalizeImageUrl has been applied twice to an ipfs:// URL that
\* the first application rewrote to the gateway.
C19_Witness ==
    /\ callee = "normalizeImageUrl"
    /\ "once" \in DOMAIN result
    /\ startsWith(input.url, IPFS_SCHEME)
    /\ Len(input.url) > Len(IPFS_SCHEME)
    /\ result.once # input.url
    /\ startsWith(result.value, IPFS_GATEWAY)

----------------------------------------------------------------------------
(* Properties of groupByChannel *)

\* The places (channel, position) at which an NFT stands in the groups.
PlacesOf(groups, nft) ==
    {<<k, j>> \in UNION {{<<c, p>> : p \in 1..Len(groups[c])} : c \in DOMAIN groups} :
        groups[k][j] = nft}

\* C20: groupByChannel(list) is a partition of exactly the NFTs flagged as
\* Farcaster mints: every flagged NFT stands in exactly one group, no unflagged NFT
\* stands in any, a flagged NFT with a non-empty farcasterChannel is in the group
\* keyed by that channel, and a flagged NFT without one is in the group keyed
\* 'Unknown Channel'.
C20_GroupByChannelPartitions ==
    callee = "groupByChannel" =>
        \A i \in 1..Len(input.nfts) :
            LET nft == input.nfts[i]
                channel == nft.metadata.farcasterChannel
                places == PlacesOf(result.value, nft)
            IN  IF nft.metadata.isFarcasterMint
                THEN /\ Cardinality(places) = 1
                     /\ \A pl \in places :
                           pl[1] = IF channel = Undefined \/ channel = <<>>
                                   THEN UNKNOWN_CHANNEL ELSE channel
                ELSE places = {}

\* Witness for C20: groupByChannel has grouped a list with a flagged NFT that names
\* a channel, a flagged NFT without one and an unflagged NFT that names a channel.
C20_Witness ==
    /\ callee = "groupByChannel"
    /\ Cardinality(DOMAIN result.value) = 2
    /\ UNKNOWN_CHANNEL \in DOMAIN result.value
    /\ \E i \in 1..Len(input.nfts) :
          /\ ~input.nfts[i].metadata.isFarcasterMint
          /\ ~Blank(input.nfts[i].metadata.farcasterChannel)

----------------------------------------------------------------------------
(* Properties of the grid's flat and two-section arrangements *)

\* The NFTs (non-header elements) of an arrangement, in its order.
NFTsOf(items) == SelectSeq(items, LAMBDA e : ~IsHeader(e))

\* How often x stands in a list.
Occurrences(list, x) == Cardinality({i \in 1..Len(list) : list[i] = x})

\* Two lists hold the same elements the same number of times.
IsPermutation(a, b) ==
    /\ Len(a) = Len(b)
    /\ \A x \in Range(a) \cup Range(b) : Occurrences(a, x) = Occurrences(b, x)

\* The floor price amount of an NFT, a missing floor price counting as zero.
PriceOrZero(nft) ==
    IF "floorPrice" \in DOMAIN nft.collection THEN nft.collection.floorPrice.amount ELSE 0

\* C21: groupAndSortNFTs(list, 'value') returns all NFTs of the list as a flat
\* sequence with no headers, in which the floor price amount never increases from
\* one element to the next, a missing floor price counting as zero.
C21_ValueSortNonIncreasing ==
    (callee = "groupAndSortNFTs" /\ result.mode = "value") =>
        /\ \A i \in 1..Len(result.items) : ~IsHeader(result.items[i])
        /\ IsPermutation(result.items, input.nfts)
        /\ \A i \in 1..(Len(result.items) - 1) :
              PriceOrZero(result.items[i]) >= PriceOrZero(result.items[i + 1])

\* Witness for C21: the value sort has reordered a list that began with an NFT
\* without floor price and went on with two NFTs of different floor prices.
C21_Witness ==
    /\ callee = "groupAndSortNFTs"
    /\ result.mode = "value"
    /\ Len(input.nfts) = 3
    /\ "floorPrice" \notin DOMAIN input.nfts[1].collection
    /\ PriceOrZero(input.nfts[2]) = 1
    /\ PriceOrZero(input.nfts[3]) = 2
    /\ result.items # input.nfts

\* C22: groupAndSortNFTs(list, 'farcaster') emits a 'Farcaster Mints' header and
\* then all flagged NFTs in their original relative order, then an 'Other NFTs'
\* header and then all unflagged NFTs in their original relative order; each header
\* is present exactly when its group is non-empty and its count is the size of its
\* group.
C22_FarcasterSections ==
    (callee = "groupAndSortNFTs" /\ result.mode = "farcaster") =>
        LET items == result.items
            flagged == SelectSeq(input.nfts, LAMBDA n : n.metadata.isFarcasterMint)
            others == SelectSeq(input.nfts, LAMBDA n : ~n.metadata.isFarcasterMint)
            headers == SelectSeq(items, IsHeader)
            otherAt == Len(flagged) + (IF Len(flagged) > 0 THEN 1 ELSE 0) + 1
        IN  /\ NFTsOf(items) = flagged \o others
            /\ Len(headers) = (IF Len(flagged) > 0 THEN 1 ELSE 0)
                                + (IF Len(others) > 0 THEN 1 ELSE 0)
            /\ Len(flagged) > 0 =>
                  /\ IsHeader(items[1])
                  /\ items[1].title = "Farcaster Mints"
                  /\ items[1].count = Len(flagged)
            /\ Len(others) > 0 =>
                  /\ IsHeader(items[otherAt])
                  /\ items[otherAt].title = "Other NFTs"
                  /\ items[otherAt].count = Len(others)

\* Witness for C22: the farcaster arrangement of a list in which an unflagged NFT
\* stands between two different flagged ones.
C22_Witness ==
    /\ callee = "groupAndSortNFTs"
    /\ result.mode = "farcaster"
    /\ Len(input.nfts) = 3
    /\ input.nfts[1].metadata.isFarcasterMint
    /\ ~input.nfts[2].metadata.isFarcasterMint
    /\ input.nfts[3].metadata.isFarcasterMint
    /\ input.nfts[1] # input.nfts[3]
    /\ Len(result.items) = 5

\* C23: for every sort mode, groupAndSortNFTs leaves the list it was given with
\* the same elements in the same order, and the non-header elements of its output
\* are a permutation of that list.
C23_InputKeptOutputPermutation ==
    [][(callee = "none" /\ callee' = "groupAndSortNFTs") =>
          /\ input'.nfts = input.nfts
          /\ IsPermutation(NFTsOf(result'.items), input.nfts)]_vars

\* Witness for C23: sort mode 'custom' has arranged a list of three NFTs in an
\* order other than the list's.
C23_Witness ==
    /\ callee = "groupAndSortNFTs"
    /\ result.mode = "custom"
    /\ Len(input.nfts) = 3
    /\ result.items # input.nfts

----------------------------------------------------------------------------
(* Further properties of the store *)

\* C24: setNFTs(walletId, list) changes only that wallet's slice: every NFT
\* stored under a different walletId before the call is still stored, unchanged,
\* after the call, for every list.
C24_SetNFTsKeepsOtherWallets ==
    [][\A l \in NFTLists :
          (lastOp'.op = "setNFTs" /\ setNFTs(lastOp'.id, l))
          => \A w \in WalletIds \ {lastOp'.id} :
                \A k \in DOMAIN nfts :
                    nfts[k].walletId = w => (k \in DOMAIN nfts' /\ nfts'[k] = nfts[k])
      ]_vars

\* C25: under any interleaving of wallet refreshes with removeWallet, every NFT in
\* the store has a walletId that is the id of a wallet currently in wallets.
C25_NoNFTsOfRemovedWallets ==
    \A k \in DOMAIN nfts : \E i \in 1..Len(wallets) : wallets[i].id = nfts[k].walletId

\* C26: in every state reachable by setNFTs, updateNFT and removeNFTsByWallet, each
\* entry of the nfts map is keyed by the id field of the record it holds, so no two
\* entries hold records with the same id.
C26_EntriesKeyedByTheirId ==
    /\ \A k \in DOMAIN nfts : nfts[k].id = k
    /\ \A k1, k2 \in DOMAIN nfts : nfts[k1].id = nfts[k2].id => k1 = k2

\* C27: in every state reachable by addWallet, removeWallet, updateWallet and
\* clearAllData, activeWalletId is unset exactly when wallets is empty, and
\* otherwise is the id of a wallet present in wallets.
C27_ActiveWalletIsPresent ==
    /\ (activeWalletId = None) <=> (Len(wallets) = 0)
    /\ activeWalletId # None => \E i \in 1..Len(wallets) : wallets[i].id = activeWalletId

\* C28: two NFTs inserted by setNFTs are folded into the same Collection aggregate
\* only if they have the same chain family, the same EVM sub-chain and the same
\* contract address: after setNFTs every NFT of the list has an aggregate that
\* carries its own chain, evmChain and contractAddress.
C28_AggregatePerChainAndContract ==
    [][\A l \in NFTLists :
          (lastOp'.op = "setNFTs" /\ setNFTs(lastOp'.id, l))
          => \A i \in 1..Len(l) :
                \E key \in DOMAIN collections' :
                    /\ collections'[key].chain = l[i].chain
                    /\ collections'[key].evmChain = l[i].evmChain
                    /\ collections'[key].contractAddress = l[i].contractAddress
      ]_vars

----------------------------------------------------------------------------
(* Further properties of the fetchers *)

\* C29: the request issued by the EVM fetcher's fetchPage depends on the chain
\* argument: a request sent for one chain differs from the request that fetchPage
\* issues for the same address and page key on any other EVM chain, their networks
\* being different.
C29_RequestNamesTheChain ==
    \A i \in 1..Len(aReqs) :
        \A chain \in EvmChains \ {aChain} :
            LET pageKey == IF "pageKey" \in DOMAIN aReqs[i] THEN aReqs[i].pageKey
                           ELSE NoPageKey
            IN  mapChainToNetwork(chain) # mapChainToNetwork(aChain)
                   => aReqs[i] # AlchemyRequest(FetchAddress, chain, pageKey)

\* C30: every fetchForWallet call eventually finishes, with a result or an error,
\* provided each page request gets a response and the wallet holds finitely many
\* items (at most MaxPages pages): the Solana loop ends after a page shorter than
\* the page size, the EVM loop after a page without pageKey.
C30_FetchTerminates ==
    /\ (hPc \in {"loop", "await"}) ~> (hPc \in {"done", "error"})
    /\ (aPc \in {"loop", "await"}) ~> (aPc \in {"done", "error"})

\* Witness for C30: the Solana fetch has returned after as many pages as the
\* wallet's holdings span, the fetcher having asked for the next page after every
\* full page.
C30_Witness ==
    /\ hPc = "done"
    /\ Len(hReqs) = MaxPages
    /\ \A i \in 1..(MaxPages - 1) : Len(hResps[i].items) = HeliusLimit
    /\ Len(hResps[MaxPages].items) < HeliusLimit

====
